---------------------------- MODULE Spec2Model ----------------------------
(***************************************************************************)
(* Model of the Sora registration tool (src/src/index.js,                  *)
(* src/src/modules/register.js, src/src/modules/tempmail.js).              *)
(*                                                                         *)
(* Texts (page bodies, URLs) are sequences of one-character strings, so    *)
(* that the regular expressions and substring tests of the code are        *)
(* computed character by character.                                        *)
(*                                                                         *)
(* Specifications:                                                         *)
(*   SpecRetry    one call of OpenAIRegister.withRetry                     *)
(*   SpecExtract  one call of TempMailService.extractVerificationCode      *)
(*   SpecWait     one call of TempMailService.waitForVerificationCode      *)
(*   Spec         main(): the runs of registerOne, each with register()    *)
(***************************************************************************)
EXTENDS Integers, Sequences, FiniteSets, TLC

VARIABLES
    wr_pc,          \* withRetry: "idle" | "call" | "sleep" | "returned" | "thrown"
    wr_retries,     \* withRetry: parameter retries
    wr_i,           \* withRetry: loop variable i
    wr_lastError,   \* withRetry: local lastError
    wr_trace,       \* history: outcome of every invocation of fn, in order
    wr_result,      \* withRetry: value returned, or error thrown
    ex_pc,          \* extractVerificationCode: "start" | "done"
    ex_body,        \* document.body.innerText read by extractVerificationCode
    ex_result,      \* value returned by extractVerificationCode
    w_pc,           \* waitForVerificationCode: position in the function
    w_timeout,      \* waitForVerificationCode: parameter timeout, in seconds
    w_now,          \* Date.now() - startTime, in seconds
    w_slept,        \* history: seconds spent in this.sleep since the call
    w_polls,        \* history: number of inspections of the inbox (pageInfo)
    w_hit,          \* mailCount > 0 || hasOpenAI of the current iteration
    w_anyHit,       \* history: some inspection reported a hit
    w_page,         \* the body text read by the latest page.evaluate
    w_result,       \* value returned, or error thrown
    g_pc,           \* register(): "idle", the stage it is at, "returned", "raised"
    g_entered,      \* history: the stages entered, one entry per handler call
    g_finished,     \* history: the stages that finished without raising
    g_code,         \* register(): const code
    g_banner,       \* register(): hasSignInIssue
    g_url,          \* register(): currentUrl
    g_result,       \* register(): value returned, or error raised
    g_failedAt,     \* history: the stage at which register() raised
    r_pc,           \* registerOne(): position in the function
    r_email,        \* registerOne(): email
    r_status,       \* registerOne(): status
    r_sessionToken, \* registerOne(): sessionToken
    r_accessToken,  \* registerOne(): accessToken
    r_tmPage,       \* tempMail.page: "null" | "open"
    r_regPage,      \* register.page: "null" | "open"
    r_harvested,    \* history: getSessionToken was called in this run
    r_saves,        \* history: calls of saveAccount in this run
    r_closes,       \* history: the pages whose close() was attempted in this run
    accounts,       \* the records stored by saveAccount
    m_pc,           \* main(): position in the function
    isRunning,      \* index.js: let isRunning
    m_index,        \* main(): index
    successCount,   \* main(): successCount
    failCount,      \* main(): failCount
    debugMode,      \* config.debugMode
    m_i,            \* main(): loop variable i of the reconnection loop
    browser,        \* the browser: "none" | "open" | "closed"
    u_pc,           \* a single call of a helper: "idle" | "start" | "done"
    u_in,           \* the call's arguments and the answers of the page to it
    u_out           \* the call's outcome: value returned, or error raised

retryVars == <<wr_pc, wr_retries, wr_i, wr_lastError, wr_trace, wr_result>>
extractVars == <<ex_pc, ex_body, ex_result>>
waitVars == <<w_pc, w_timeout, w_now, w_slept, w_polls, w_hit, w_anyHit,
              w_page, w_result>>
regVars == <<g_pc, g_entered, g_finished, g_code, g_banner, g_url, g_result,
             g_failedAt>>
runVars == <<r_pc, r_email, r_status, r_sessionToken, r_accessToken, r_tmPage,
             r_regPage, r_harvested, r_saves, r_closes, accounts>>
mainVars == <<m_pc, isRunning, m_index, successCount, failCount, debugMode,
              m_i, browser>>
unitVars == <<u_pc, u_in, u_out>>
vars == <<retryVars, extractVars, waitVars, regVars, runVars, mainVars, unitVars>>

(***************************************************************************)
(* Bounds of the model.                                                    *)
(***************************************************************************)
MaxRetries == 4     \* withRetry is explored for retries in 0..MaxRetries
MaxFrags == 3       \* a page body is made of at most MaxFrags fragments
MaxTimeout == 20    \* waitForVerificationCode is explored for 0..MaxTimeout s
MaxLatency == 1     \* seconds the page operations of one poll can take
MaxRuns == 2        \* main() is explored for at most MaxRuns runs
RunTimeout == 4     \* config.waitForEmailTimeout of the explored runs, in seconds

(***************************************************************************)
(* JavaScript values.                                                      *)
(***************************************************************************)
Null == [kind |-> "null"]
Undefined == [kind |-> "undefined"]
Str(chars) == [kind |-> "string", chars |-> chars]
Value(x) == [kind |-> "value", data |-> x]
Error(m) == [kind |-> "error", message |-> m]
\* the outcome of an awaited call: a value returned, or an error thrown
Ok(v) == [ok |-> TRUE, val |-> v]
Err(e) == [ok |-> FALSE, val |-> e]

(***************************************************************************)
(* Characters and character classes of JavaScript regular expressions.     *)
(* A character is a one-character string; a character outside ASCII is     *)
(* written by its code point ("U+9A8C").                                   *)
(***************************************************************************)
Digit == {"0", "1", "2", "3", "4", "5", "6", "7", "8", "9"}
LowerAlpha == <<"a","b","c","d","e","f","g","h","i","j","k","l","m",
                "n","o","p","q","r","s","t","u","v","w","x","y","z">>
UpperAlpha == <<"A","B","C","D","E","F","G","H","I","J","K","L","M",
                "N","O","P","Q","R","S","T","U","V","W","X","Y","Z">>
Range(s) == {s[k] : k \in DOMAIN s}
\* \w of a regular expression without the u flag
WordChar == Range(LowerAlpha) \cup Range(UpperAlpha) \cup Digit \cup {"_"}
\* \s restricted to the white space of the model's alphabet
SpaceChar == {" ", "\n", "\t"}
\* the class [:\s] of codePatterns
SepChar == {":"} \cup SpaceChar

\* String.prototype.toLowerCase, one character
LowerOfUpper ==
    [c \in Range(UpperAlpha) |->
        LowerAlpha[CHOOSE k \in DOMAIN UpperAlpha : UpperAlpha[k] = c]]
LowerChar(c) == IF c \in DOMAIN LowerOfUpper THEN LowerOfUpper[c] ELSE c
\* String.prototype.toLowerCase
toLowerCase(text) == [k \in DOMAIN text |-> LowerChar(text[k])]

\* the literal lit occurs in text at position p
LitAt(text, p, lit) ==
    /\ p >= 1
    /\ p + Len(lit) - 1 <= Len(text)
    /\ \A k \in 1..Len(lit) : text[p + k - 1] = lit[k]
\* String.prototype.includes
includes(text, lit) == \E p \in 1..(Len(text) + 1) : LitAt(text, p, lit)

\* \d{6} at position p
SixDigitsAt(text, p) ==
    /\ p >= 1
    /\ p + 5 <= Len(text)
    /\ \A k \in 0..5 : text[p + k] \in Digit
\* \b between positions p-1 and p
WordBoundaryAt(text, p) ==
    LET before == p - 1 >= 1 /\ p - 1 <= Len(text) /\ text[p - 1] \in WordChar
        after == p >= 1 /\ p <= Len(text) /\ text[p] \in WordChar
    IN before # after

(***************************************************************************)
(* TempMailService.extractVerificationCode, tempmail.js 381-406.           *)
(* A pattern of codePatterns is label, separator class [:\s] repeated      *)
(* (+ : sepMin = 1, * : sepMin = 0), capture (\d{6}); the last pattern is  *)
(* \b(\d{6})\b.  ci is the i flag.                                         *)
(***************************************************************************)
codePatterns == <<
    [label |-> <<"v","e","r","i","f","i","c","a","t","i","o","n"," ","c","o","d","e">>,
     ci |-> TRUE, sepMin |-> 1, bare |-> FALSE],
    [label |-> <<"v","e","r","i","f","y">>,
     ci |-> TRUE, sepMin |-> 1, bare |-> FALSE],
    [label |-> <<"c","o","d","e">>,
     ci |-> TRUE, sepMin |-> 1, bare |-> FALSE],
    [label |-> <<"U+9A8C","U+8BC1","U+7801">>,
     ci |-> FALSE, sepMin |-> 0, bare |-> FALSE],
    [label |-> <<"y","o","u","r"," ","c","o","d","e"," ","i","s">>,
     ci |-> TRUE, sepMin |-> 0, bare |-> FALSE],
    [label |-> <<"e","n","t","e","r"," ","t","h","i","s"," ","c","o","d","e">>,
     ci |-> TRUE, sepMin |-> 0, bare |-> FALSE],
    [label |-> <<>>,
     ci |-> FALSE, sepMin |-> 0, bare |-> TRUE] >>

\* position of the capture group when pat matches text starting at p, else 0;
\* lower is toLowerCase(text), the view of text a pattern with the i flag matches
CaptureAt(text, lower, p, pat) ==
    IF pat.bare
    THEN IF /\ WordBoundaryAt(text, p)
            /\ SixDigitsAt(text, p)
            /\ WordBoundaryAt(text, p + 6)
         THEN p ELSE 0
    ELSE LET t == IF pat.ci THEN lower ELSE text
             q == p + Len(pat.label)
             ks == {k \in pat.sepMin..Len(text) :
                      /\ \A j \in 0..(k - 1) :
                            q + j <= Len(text) /\ text[q + j] \in SepChar
                      /\ SixDigitsAt(text, q + k)}
         IN IF LitAt(t, p, pat.label) /\ ks # {}
            THEN q + (CHOOSE k \in ks : TRUE) ELSE 0

\* String.prototype.match with a non-global pattern: Null, or the leftmost
\* match with its position (index) and its capture group (match[1])
match(text, pat) ==
    LET lower == toLowerCase(text)
        ps == {p \in 1..Len(text) : CaptureAt(text, lower, p, pat) # 0}
    IN IF ps = {} THEN Null
       ELSE LET p == CHOOSE x \in ps : \A y \in ps : x <= y
                c == CaptureAt(text, lower, p, pat)
            IN [kind |-> "match", index |-> p, group1 |-> SubSeq(text, c, c + 5),
                group0 |-> SubSeq(text, p, c + 5)]

\* a mutant of MatchResult: the whole match instead of the capture group
MatchResultWhole(m) == Str(m.group0)
\* return match[1]
MatchResult(m) == Str(m.group1)

RECURSIVE FirstPatternLeftmost(_, _)
\* a mutant of FirstPatternFrom: the pattern whose match starts first in the text
FirstPatternLeftmost(text, n) ==
    LET ms == {k \in n..Len(codePatterns) : match(text, codePatterns[k]) # Null}
    IN IF ms = {} THEN Null
       ELSE LET k == CHOOSE x \in ms : \A y \in ms :
                        \/ match(text, codePatterns[x]).index
                             < match(text, codePatterns[y]).index
                        \/ /\ match(text, codePatterns[x]).index
                                = match(text, codePatterns[y]).index
                           /\ x <= y
            IN MatchResult(match(text, codePatterns[k]))

RECURSIVE FirstPatternFrom(_, _)
\* for (const pattern of codePatterns) { match ... return match[1] } return null
FirstPatternFrom(text, n) ==
    IF n > Len(codePatterns) THEN Null
    ELSE LET m == match(text, codePatterns[n])
         IN IF m # Null THEN MatchResult(m) ELSE FirstPatternFrom(text, n + 1)

extractVerificationCode(text) == FirstPatternFrom(text, 1)

ExtractIdle ==
    /\ ex_pc = "idle"
    /\ ex_body = <<>>
    /\ ex_result = Undefined

\* one call of extractVerificationCode on the page body ex_body
ExtractCall ==
    /\ ex_pc = "start"
    /\ ex_result' = extractVerificationCode(ex_body)
    /\ ex_pc' = "done"
    /\ UNCHANGED ex_body

(***************************************************************************)
(* Page bodies of the model: concatenations of at most MaxFrags fragments. *)
(***************************************************************************)
Code482913 == <<"4","8","2","9","1","3">>
Code135790 == <<"1","3","5","7","9","0">>
Fragments == {
    <<"V","e","r","i","f","i","c","a","t","i","o","n"," ","c","o","d","e">>,
    <<"v","e","r","i","f","y">>,
    <<"c","o","d","e">>,
    <<"U+9A8C","U+8BC1","U+7801">>,
    <<"Y","o","u","r"," ","c","o","d","e"," ","i","s">>,
    <<"E","n","t","e","r"," ","t","h","i","s"," ","c","o","d","e">>,
    Code482913,
    Code135790,
    <<"1","2","3","4","5">>,
    <<"7">>,
    <<" ">>,
    <<":">>,
    <<"x">> }

RECURSIVE BodiesOf(_)
BodiesOf(n) ==
    IF n = 0 THEN {<<>>}
    ELSE LET shorter == BodiesOf(n - 1)
         IN shorter \cup {b \o f : b \in shorter, f \in Fragments}
Bodies == BodiesOf(MaxFrags)

(***************************************************************************)
(* TempMailService.waitForVerificationCode, tempmail.js 160-258.           *)
(* Time is counted in seconds.  The page is the webmail site: every        *)
(* page.evaluate reads the body text the page has at that moment, and      *)
(* page.screenshot and page.evaluate can fail.                             *)
(***************************************************************************)
FENG == "U+5C01"
PollBodies == {
    <<"0", " ", FENG>>,
    <<"1", " ", FENG>>,
    <<"1", "0", FENG>>,
    <<"O","p","e","n","A","I">>,
    <<"1", " ", FENG, " ">> \o
        <<"Y","o","u","r"," ","c","o","d","e"," ","i","s"," ">> \o Code482913,
    <<"0", " ", FENG, " ">> \o Code135790 }

RECURSIVE parseInt(_)
\* parseInt of a run of decimal digits
parseInt(digits) ==
    IF digits = <<>> THEN 0
    ELSE 10 * parseInt(SubSeq(digits, 1, Len(digits) - 1))
         + (CHOOSE d \in 0..9 : ToString(d) = digits[Len(digits)])

\* bodyText.match(/(\d+)\s*U+5C01/): the capture of the leftmost match, or Null
CountMatch(text) ==
    LET ends(p) == {k \in 1..Len(text) :
                      /\ p + k - 1 <= Len(text)
                      /\ \A j \in 0..(k - 1) : text[p + j] \in Digit
                      /\ \E n \in 0..Len(text) :
                            /\ p + k + n <= Len(text)
                            /\ \A j \in 0..(n - 1) : text[p + k + j] \in SpaceChar
                            /\ text[p + k + n] = FENG}
        ps == {p \in 1..Len(text) : ends(p) # {}}
    IN IF ps = {} THEN Null
       ELSE LET p == CHOOSE x \in ps : \A y \in ps : x <= y
                k == CHOOSE x \in ends(p) : \A y \in ends(p) : x >= y
            IN Str(SubSeq(text, p, p + k - 1))

\* the object returned by the pageInfo script
PageInfo(text) ==
    LET lower == toLowerCase(text)
        countMatch == CountMatch(text)
    IN [hasOpenAI |->
            \/ includes(lower, <<"o","p","e","n","a","i">>)
            \/ includes(lower, <<"v","e","r","i","f","y">>)
            \/ includes(lower, <<"v","e","r","i","f","i","c","a","t","i","o","n">>),
        mailCount |-> IF countMatch # Null THEN parseInt(countMatch.chars) ELSE 0]

\* if (pageInfo.mailCount > 0 || pageInfo.hasOpenAI)
PollHit(info) == info.mailCount > 0 \/ info.hasOpenAI

\* if (verificationCode): a non-empty string
Truthy(v) == v.kind = "string" /\ v.chars # <<>>

SleepBeforePoll == 3
SleepAfterOpen == 2
SleepAfterPoll == 5
TimeoutError == Error("verification code wait timed out")
ScreenshotError == Error("page.screenshot failed")
EvaluateError == Error("page.evaluate failed")

\* a mutant of WaitLoopTest: the deadline itself still starts an iteration
WaitLoopTestInclusive(now, timeout) == now <= timeout
\* while (Date.now() - startTime < timeout)
WaitLoopTest(now, timeout) == now < timeout

WaitIdle ==
    /\ w_pc = "idle"
    /\ w_timeout = 0
    /\ w_now = 0
    /\ w_slept = 0
    /\ w_polls = 0
    /\ w_hit = FALSE
    /\ w_anyHit = FALSE
    /\ w_page = <<>>
    /\ w_result = Undefined

\* the call: startTime = Date.now(); verificationCode = null; bringToFront
WaitEnter(timeout) ==
    /\ w_pc = "idle"
    /\ w_pc' = "test"
    /\ w_timeout' = timeout
    /\ w_now' = 0
    /\ w_slept' = 0
    /\ w_polls' = 0
    /\ w_hit' = FALSE
    /\ w_anyHit' = FALSE
    /\ w_page' = <<>>
    /\ w_result' = Undefined

\* the while test
WaitTest ==
    /\ w_pc = "test"
    /\ w_pc' = IF WaitLoopTest(w_now, w_timeout) THEN "sleep3" ELSE "timeout"
    /\ UNCHANGED <<w_timeout, w_now, w_slept, w_polls, w_hit, w_anyHit,
                   w_page, w_result>>

\* await this.sleep(ms), then continue at next
WaitSleep(at, ms, next) ==
    /\ w_pc = at
    /\ w_pc' = next
    /\ w_now' = w_now + ms
    /\ w_slept' = w_slept + ms
    /\ UNCHANGED <<w_timeout, w_polls, w_hit, w_anyHit, w_page, w_result>>

\* await this.page.screenshot(debug-tempmail-check.png); a failure is caught
WaitScreenshot(ok) ==
    /\ w_pc = "screenshot"
    /\ w_pc' = IF ok THEN "pageinfo" ELSE "sleep5"
    /\ UNCHANGED <<w_timeout, w_now, w_slept, w_polls, w_hit, w_anyHit,
                   w_page, w_result>>

\* const pageInfo = await this.page.evaluate(...): the inbox is inspected;
\* the page operations of this iteration take latency seconds
WaitPageInfo(body, latency) ==
    /\ w_pc = "pageinfo"
    /\ w_page' = body
    /\ w_polls' = w_polls + 1
    /\ w_now' = w_now + latency
    /\ w_hit' = PollHit(PageInfo(body))
    /\ w_anyHit' = (w_anyHit \/ PollHit(PageInfo(body)))
    /\ w_pc' = IF PollHit(PageInfo(body)) THEN "click" ELSE "extract2"
    /\ UNCHANGED <<w_timeout, w_slept, w_result>>

\* page.evaluate throws (pageInfo, click or extraction): caught, logged
WaitEvaluateThrows ==
    /\ w_pc \in {"pageinfo", "click", "extract1", "extract2"}
    /\ w_pc' = "sleep5"
    /\ UNCHANGED <<w_timeout, w_now, w_slept, w_polls, w_hit, w_anyHit,
                   w_page, w_result>>

\* the script that clicks the first mail item
WaitClick ==
    /\ w_pc = "click"
    /\ w_pc' = "sleep2"
    /\ UNCHANGED <<w_timeout, w_now, w_slept, w_polls, w_hit, w_anyHit,
                   w_page, w_result>>

\* a mutant of WaitExtract: an extraction without code ends the wait
WaitExtractGivesUp(at, body, next) ==
    /\ w_pc = at
    /\ w_page' = body
    /\ IF Truthy(extractVerificationCode(body))
       THEN /\ w_pc' = "returned"
            /\ w_result' = Ok(extractVerificationCode(body))
       ELSE /\ w_pc' = "timeout"
            /\ w_result' = w_result
    /\ UNCHANGED <<w_timeout, w_now, w_slept, w_polls, w_hit, w_anyHit>>
\* verificationCode = await this.extractVerificationCode();
\* if (verificationCode) return verificationCode
WaitExtract(at, body, next) ==
    /\ w_pc = at
    /\ w_page' = body
    /\ IF Truthy(extractVerificationCode(body))
       THEN /\ w_pc' = "returned"
            /\ w_result' = Ok(extractVerificationCode(body))
       ELSE /\ w_pc' = next
            /\ w_result' = w_result
    /\ UNCHANGED <<w_timeout, w_now, w_slept, w_polls, w_hit, w_anyHit>>

\* after the loop: screenshot(debug-tempmail-timeout.png), then
\* throw new Error(...); a failure of the screenshot is thrown instead
WaitTimeout(screenshotOk) ==
    /\ w_pc = "timeout"
    /\ w_pc' = "thrown"
    /\ w_result' = IF screenshotOk THEN Err(TimeoutError) ELSE Err(ScreenshotError)
    /\ UNCHANGED <<w_timeout, w_now, w_slept, w_polls, w_hit, w_anyHit, w_page>>

WaitStep ==
    \/ WaitTest
    \/ WaitSleep("sleep3", SleepBeforePoll, "screenshot")
    \/ \E ok \in BOOLEAN : WaitScreenshot(ok)
    \/ \E b \in PollBodies, l \in 0..MaxLatency : WaitPageInfo(b, l)
    \/ WaitEvaluateThrows
    \/ WaitClick
    \/ WaitSleep("sleep2", SleepAfterOpen, "extract1")
    \/ \E b \in PollBodies : WaitExtract("extract1", b, "extract2")
    \/ \E b \in PollBodies : WaitExtract("extract2", b, "sleep5")
    \/ WaitSleep("sleep5", SleepAfterPoll, "test")
    \/ \E ok \in BOOLEAN : WaitTimeout(ok)

(***************************************************************************)
(* OpenAIRegister.withRetry, register.js 104-119.                          *)
(* fn is the wrapped operation: every invocation either returns a value    *)
(* or throws an error.                                                     *)
(***************************************************************************)
FnValues == {Value("v1"), Value("v2")}
FnErrors == {Error("e1"), Error("e2")}

\* a mutant of RetryLoopTest: one evaluation too many
RetryLoopTestInclusive(i, retries) == i <= retries
\* for (let i = 0; i < retries; i++)
RetryLoopTest(i, retries) == i < retries
\* a mutant of RetryCatch: the first error is kept
RetryCatchFirst(lastError, error) ==
    IF lastError = Undefined THEN error ELSE lastError
\* catch (error) { lastError = error; ... }
RetryCatch(lastError, error) == error
\* if (i < retries - 1) { ... await this.sleep(delay) }
RetrySleeps(i, retries) == i < retries - 1

\* withRetry is called: let lastError; i = 0
WithRetryEnter(retries) ==
    /\ wr_pc = "idle"
    /\ wr_retries' = retries
    /\ wr_i' = 0
    /\ wr_lastError' = Undefined
    /\ wr_trace' = <<>>
    /\ wr_result' = Undefined
    /\ wr_pc' = "call"

\* one evaluation of the for-loop: test, then return await fn() or catch
WithRetryCall(outcome) ==
    /\ wr_pc = "call"
    /\ RetryLoopTest(wr_i, wr_retries)
    /\ wr_trace' = Append(wr_trace, outcome)
    /\ IF outcome.ok
       THEN /\ wr_pc' = "returned"
            /\ wr_result' = outcome
            /\ UNCHANGED <<wr_i, wr_lastError>>
       ELSE /\ wr_lastError' = RetryCatch(wr_lastError, outcome.val)
            /\ wr_result' = wr_result
            /\ IF RetrySleeps(wr_i, wr_retries)
               THEN wr_pc' = "sleep" /\ wr_i' = wr_i
               ELSE wr_pc' = "call" /\ wr_i' = wr_i + 1
    /\ UNCHANGED wr_retries

\* a mutant of WithRetrySleep: the attempt is not counted
WithRetrySleepKeepsIndex ==
    /\ wr_pc = "sleep"
    /\ wr_pc' = "call"
    /\ wr_i' = wr_i
    /\ UNCHANGED <<wr_retries, wr_lastError, wr_trace, wr_result>>
\* await this.sleep(delay) is over; i++
WithRetrySleep ==
    /\ wr_pc = "sleep"
    /\ wr_pc' = "call"
    /\ wr_i' = wr_i + 1
    /\ UNCHANGED <<wr_retries, wr_lastError, wr_trace, wr_result>>

\* the loop is left: throw lastError
WithRetryThrow ==
    /\ wr_pc = "call"
    /\ ~RetryLoopTest(wr_i, wr_retries)
    /\ wr_pc' = "thrown"
    /\ wr_result' = Err(wr_lastError)
    /\ UNCHANGED <<wr_retries, wr_i, wr_lastError, wr_trace>>

\* outcomes of an invocation of fn
FnOutcomes == {Ok(v) : v \in FnValues} \cup {Err(e) : e \in FnErrors}

RetryIdle ==
    /\ wr_pc = "idle"
    /\ wr_retries = 0
    /\ wr_i = 0
    /\ wr_lastError = Undefined
    /\ wr_trace = <<>>
    /\ wr_result = Undefined

(***************************************************************************)
(* OpenAIRegister.safeEvaluate, register.js 124-142.                       *)
(* evals[k] is the outcome of the k-th call of page.evaluate.  The result  *)
(* is the outcome of safeEvaluate with the number of evaluations and of    *)
(* sleeps it made.                                                         *)
(***************************************************************************)
ContextDestroyedError == Error("Execution context was destroyed")
NavigationError == Error("navigation")
TargetClosedError == Error("Target closed")
ProtocolError == Error("Protocol error")

\* e.message
MessageText(e) ==
    CASE e = ContextDestroyedError ->
            <<"E","x","e","c","u","t","i","o","n"," ","c","o","n","t","e","x","t",
              " ","w","a","s"," ","d","e","s","t","r","o","y","e","d">>
      [] e = NavigationError ->
            <<"n","a","v","i","g","a","t","i","o","n">>
      [] e = TargetClosedError ->
            <<"T","a","r","g","e","t"," ","c","l","o","s","e","d">>
      [] OTHER ->
            <<"P","r","o","t","o","c","o","l"," ","e","r","r","o","r">>

\* a mutant of IsNavigationClass: every error is taken for a navigation error
IsNavigationClassAlways(e) == TRUE
\* the test of the catch block of safeEvaluate
IsNavigationClass(e) ==
    \/ includes(MessageText(e),
                <<"E","x","e","c","u","t","i","o","n"," ","c","o","n","t","e","x","t",
                  " ","w","a","s"," ","d","e","s","t","r","o","y","e","d">>)
    \/ includes(MessageText(e), <<"n","a","v","i","g","a","t","i","o","n">>)
    \/ includes(MessageText(e), <<"T","a","r","g","e","t"," ","c","l","o","s","e","d">>)

RECURSIVE SafeEvaluateFrom(_, _, _, _)
SafeEvaluateFrom(evals, i, defaultValue, retries) ==
    IF ~(i < retries)
    THEN [result |-> Ok(defaultValue), evaluations |-> i, sleeps |-> i]
    ELSE LET o == evals[i + 1]
         IN IF o.ok
            THEN [result |-> o, evaluations |-> i + 1, sleeps |-> i]
            ELSE IF IsNavigationClass(o.val) /\ i < retries - 1
                 THEN SafeEvaluateFrom(evals, i + 1, defaultValue, retries)
                 ELSE [result |-> o, evaluations |-> i + 1, sleeps |-> i]

\* a mutant of safeEvaluate: when the last attempt fails with a navigation
\* error the default value is returned
safeEvaluateDefaultsWhenExhausted(evals, defaultValue, retries) ==
    LET r == SafeEvaluateFrom(evals, 0, defaultValue, retries)
    IN IF ~r.result.ok /\ IsNavigationClass(r.result.val)
       THEN [r EXCEPT !.result = Ok(defaultValue)]
       ELSE r
safeEvaluate(evals, defaultValue, retries) ==
    SafeEvaluateFrom(evals, 0, defaultValue, retries)

SafeEvaluateRetries == 3
EvaluateErrors == {ContextDestroyedError, ProtocolError}
\* the outcomes of the page.evaluate calls of one safeEvaluate whose script
\* returns a value of vals
EvalSeqs(vals) ==
    LET outs == {Ok(v) : v \in vals} \cup {Err(e) : e \in EvaluateErrors}
    IN [1..SafeEvaluateRetries -> outs]

(***************************************************************************)
(* OpenAIRegister.register, register.js 725-848.                           *)
(***************************************************************************)
HandlerStages == {"LoginEntry", "SignupEntry", "EmailEntry", "PasswordEntry",
                  "CodeEntry", "ProfileEntry", "UsernameEntry"}

\* a mutant of NextStage: the code is entered without asking the provider
NextStageWithoutAwaitCode(s) ==
    CASE s = "LoginEntry" -> "SignupEntry"
      [] s = "SignupEntry" -> "EmailEntry"
      [] s = "EmailEntry" -> "PasswordEntry"
      [] s = "PasswordEntry" -> "CodeEntry"
      [] s = "AwaitCode" -> "CodeEntry"
      [] s = "CodeEntry" -> "ProfileEntry"
      [] s = "ProfileEntry" -> "IssueCheck"
      [] s = "IssueCheck" -> "UsernameEntry"
      [] s = "UsernameEntry" -> "Completion"
\* a mutant of NextStage: the issue check is left out
NextStageWithoutIssueCheck(s) ==
    CASE s = "LoginEntry" -> "SignupEntry"
      [] s = "SignupEntry" -> "EmailEntry"
      [] s = "EmailEntry" -> "PasswordEntry"
      [] s = "PasswordEntry" -> "AwaitCode"
      [] s = "AwaitCode" -> "CodeEntry"
      [] s = "CodeEntry" -> "ProfileEntry"
      [] s = "ProfileEntry" -> "UsernameEntry"
      [] s = "IssueCheck" -> "UsernameEntry"
      [] s = "UsernameEntry" -> "Completion"
\* the statement that follows stage s in the try block of register()
NextStage(s) ==
    CASE s = "LoginEntry" -> "SignupEntry"
      [] s = "SignupEntry" -> "EmailEntry"
      [] s = "EmailEntry" -> "PasswordEntry"
      [] s = "PasswordEntry" -> "AwaitCode"
      [] s = "AwaitCode" -> "CodeEntry"
      [] s = "CodeEntry" -> "ProfileEntry"
      [] s = "ProfileEntry" -> "IssueCheck"
      [] s = "IssueCheck" -> "UsernameEntry"
      [] s = "UsernameEntry" -> "Completion"

\* the third argument of every withRetry call of register()
StageRetries == 3

StageError(s) == Error(s)
BannerError == Error("We ran into an issue while signing you in")

\* what the page does during one call of clickSignUp: waitForSelector
\* resolves or not, safeEvaluate gives true, false or raises, and the
\* screenshot of the catch block succeeds or not
SignUpPages ==
    [selectorOk : BOOLEAN,
     clicked : {Ok(TRUE), Ok(FALSE), Err(ContextDestroyedError), Err(ProtocolError)},
     screenshotOk : BOOLEAN]
\* a mutant of clickSignUp: the screenshot of the catch block is not guarded
\* and the error is thrown again, as in enterEmail
clickSignUpRethrows(page) ==
    IF page.selectorOk /\ page.clicked.ok
    THEN Ok(Undefined)
    ELSE IF ~page.screenshotOk THEN Err(ScreenshotError)
         ELSE Err(StageError("SignupEntry"))
\* clickSignUp, register.js 287-320: try { waitForSelector; clicked = await
\* safeEvaluate(...); if (clicked) { waitForNavigation; sleep } }
\* catch (error) { try { screenshot } catch (e) {} warn }
clickSignUp(page) ==
    IF page.selectorOk /\ page.clicked.ok
    THEN Ok(Undefined)
    ELSE Ok(Undefined)

\* the outcomes of one call of the handler of stage s: clickSignUp catches
\* every error; clickLogin and enterUsername guard the screenshot of their
\* catch block, the other handlers do not
HandlerOutcomes(s) ==
    CASE s = "SignupEntry" -> {clickSignUp(page) : page \in SignUpPages}
      [] s \in {"LoginEntry"} -> {Ok(Undefined), Err(StageError(s))}
      [] OTHER -> {Ok(Undefined), Err(StageError(s)), Err(ScreenshotError)}

\* checkForSignInIssue, register.js 700-720
checkForSignInIssue(evals) == safeEvaluate(evals, FALSE, SafeEvaluateRetries).result

(* URLs: the text of a URL is https:// host rest *)
Https == <<"h","t","t","p","s",":","/","/">>
AuthHost == <<"a","u","t","h",".","o","p","e","n","a","i",".","c","o","m">>
SoraHost == <<"s","o","r","a",".","c","o","m">>
ChatHost == <<"c","h","a","t",".","o","p","e","n","a","i",".","c","o","m">>
ChatGptHost == <<"c","h","a","t","g","p","t",".","c","o","m">>
SoraChatGptHost == <<"s","o","r","a",".">> \o ChatGptHost
OtherHost == <<"e","x","a","m","p","l","e",".","o","r","g">>
FinalUrls ==
    {[host |-> h, rest |-> <<"/">>] :
        h \in {AuthHost, SoraHost, ChatHost, ChatGptHost, SoraChatGptHost, OtherHost}}
    \cup {[host |-> OtherHost, rest |-> <<"/","?","n","e","x","t","=">> \o Https \o SoraHost],
          [host |-> SoraHost, rest |-> <<"/","?","f","r","o","m","=">> \o Https \o AuthHost]}
\* this.page.url()
UrlText(u) == Https \o u.host \o u.rest

\* a mutant of StillOnAuth: the test is left out
StillOnAuthNever(url) == FALSE
\* if (currentUrl.includes('auth.openai.com'))
StillOnAuth(url) == includes(url, AuthHost)
\* if (currentUrl.includes('sora.com') || ... 'chat.openai.com' ... 'chatgpt.com')
OnMainPage(url) ==
    \/ includes(url, SoraHost)
    \/ includes(url, ChatHost)
    \/ includes(url, ChatGptHost)

RegIdle ==
    /\ g_pc = "idle"
    /\ g_entered = <<>>
    /\ g_finished = {}
    /\ g_code = Undefined
    /\ g_banner = FALSE
    /\ g_url = <<>>
    /\ g_result = Undefined
    /\ g_failedAt = "none"

\* the catch block of register(): log, guarded screenshot, throw error
RegisterRaise(error) ==
    /\ g_pc' = "raised"
    /\ g_result' = Err(error)
    /\ g_failedAt' = g_pc

\* the call of withRetry is over: its locals are gone
RetryReturned ==
    /\ wr_pc' = "idle"
    /\ wr_retries' = 0
    /\ wr_i' = 0
    /\ wr_lastError' = Undefined
    /\ wr_trace' = <<>>
    /\ wr_result' = Undefined

\* the call of waitForVerificationCode is over: its locals are gone
WaitReturned ==
    /\ w_pc' = "idle"
    /\ w_timeout' = 0
    /\ w_now' = 0
    /\ w_slept' = 0
    /\ w_polls' = 0
    /\ w_hit' = FALSE
    /\ w_anyHit' = FALSE
    /\ w_page' = <<>>
    /\ w_result' = Undefined

\* the statements of register() reached so far, in order
Entered(entered, stage) ==
    IF Len(entered) > 0 /\ entered[Len(entered)] = stage
    THEN entered
    ELSE Append(entered, stage)

\* await this.withRetry(() => this.<handler>(), label, 3, 2000) is called
G_StageStart ==
    /\ g_pc \in HandlerStages
    /\ WithRetryEnter(StageRetries)
    /\ UNCHANGED regVars

\* withRetry calls the handler of the stage
G_StageInvoke(o) ==
    /\ g_pc \in HandlerStages
    /\ WithRetryCall(o)
    /\ g_entered' = Entered(g_entered, g_pc)
    /\ UNCHANGED <<g_pc, g_finished, g_code, g_banner, g_url, g_result, g_failedAt>>

G_StageSleep ==
    /\ g_pc \in HandlerStages
    /\ WithRetrySleep
    /\ UNCHANGED regVars

G_StageThrow ==
    /\ g_pc \in HandlerStages
    /\ WithRetryThrow
    /\ UNCHANGED regVars

\* withRetry returned: the next statement of the try block
G_StageDone ==
    /\ g_pc \in HandlerStages
    /\ wr_pc = "returned"
    /\ RetryReturned
    /\ g_finished' = g_finished \cup {g_pc}
    /\ g_pc' = NextStage(g_pc)
    /\ UNCHANGED <<g_entered, g_code, g_banner, g_url, g_result, g_failedAt>>

\* withRetry raised: the catch block of register()
G_StageFailed ==
    /\ g_pc \in HandlerStages
    /\ wr_pc = "thrown"
    /\ RegisterRaise(wr_result.val)
    /\ RetryReturned
    /\ UNCHANGED <<g_entered, g_finished, g_code, g_banner, g_url>>

\* const code = await getVerificationCode(): the callback of registerOne
\* calls tempMail.waitForVerificationCode(config.waitForEmailTimeout)
G_AwaitCode ==
    /\ g_pc = "AwaitCode"
    /\ WaitEnter(RunTimeout)
    /\ g_entered' = Append(g_entered, g_pc)
    /\ UNCHANGED <<g_pc, g_finished, g_code, g_banner, g_url, g_result, g_failedAt>>

G_WaitStep ==
    /\ g_pc = "AwaitCode"
    /\ WaitStep
    /\ UNCHANGED regVars

G_CodeReceived ==
    /\ g_pc = "AwaitCode"
    /\ w_pc = "returned"
    /\ WaitReturned
    /\ g_code' = w_result.val
    /\ g_finished' = g_finished \cup {g_pc}
    /\ g_pc' = NextStage(g_pc)
    /\ UNCHANGED <<g_entered, g_banner, g_url, g_result, g_failedAt>>

G_CodeFailed ==
    /\ g_pc = "AwaitCode"
    /\ w_pc = "thrown"
    /\ WaitReturned
    /\ RegisterRaise(w_result.val)
    /\ UNCHANGED <<g_entered, g_finished, g_code, g_banner, g_url>>

\* sleep(2000); hasSignInIssue = await this.checkForSignInIssue();
\* if (hasSignInIssue) { screenshot; throw new Error(...) }
G_IssueCheck(evals, screenshotOk) ==
    /\ g_pc = "IssueCheck"
    /\ g_entered' = Append(g_entered, g_pc)
    /\ LET issue == checkForSignInIssue(evals)
       IN IF ~issue.ok
          THEN /\ RegisterRaise(issue.val)
               /\ UNCHANGED <<g_finished, g_banner>>
          ELSE IF issue.val
               THEN /\ g_banner' = TRUE
                    /\ RegisterRaise(IF screenshotOk THEN BannerError
                                     ELSE ScreenshotError)
                    /\ UNCHANGED g_finished
               ELSE /\ g_finished' = g_finished \cup {g_pc}
                    /\ g_pc' = NextStage(g_pc)
                    /\ UNCHANGED <<g_banner, g_result, g_failedAt>>
    /\ UNCHANGED <<g_code, g_url>>

\* sleep(5000); guarded screenshot; the completion check on this.page.url()
G_Completion(u, evals) ==
    /\ g_pc = "Completion"
    /\ g_entered' = Append(g_entered, g_pc)
    /\ g_url' = UrlText(u)
    /\ IF StillOnAuth(UrlText(u))
       THEN LET hasError == safeEvaluate(evals, Null, SafeEvaluateRetries).result
            IN IF ~hasError.ok
               THEN /\ RegisterRaise(hasError.val)
                    /\ UNCHANGED g_finished
               ELSE /\ g_pc' = "returned"
                    /\ g_result' = Ok(FALSE)
                    /\ g_finished' = g_finished \cup {g_pc}
                    /\ UNCHANGED g_failedAt
       ELSE /\ g_pc' = "returned"
            /\ g_result' = Ok(OnMainPage(UrlText(u)))
            /\ g_finished' = g_finished \cup {g_pc}
            /\ UNCHANGED g_failedAt
    /\ UNCHANGED <<g_code, g_banner>>

(***************************************************************************)
(* registerOne, index.js 106-182.                                          *)
(***************************************************************************)
StatusFailed == "failed"
StatusSuccess == "success"
Email(n) == [kind |-> "email", run |-> n]
SessionTokens == {Null, [kind |-> "token", of |-> "session"]}
AccessTokens == {Null, [kind |-> "token", of |-> "access"]}
AddressError == Error("no temporary email address")

RunIdle ==
    /\ r_pc = "idle"
    /\ r_email = Null
    /\ r_status = StatusFailed
    /\ r_sessionToken = Null
    /\ r_accessToken = Null
    /\ r_tmPage = "null"
    /\ r_regPage = "null"
    /\ r_harvested = FALSE
    /\ r_saves = 0
    /\ r_closes = {}

\* a mutant of RunCatch: the catch block reports success
RunCatchSuccess ==
    /\ r_status' = StatusSuccess
    /\ r_pc' = "save"
\* catch (error) { status = `failed: ${error.message}` }, then finally
RunCatch ==
    /\ r_status' = StatusFailed
    /\ r_pc' = "save"

\* await tempMail.init(): newPage, goto (guarded), screenshot
R_TempMailInit(outcome) ==
    /\ r_pc = "tm_init"
    /\ r_tmPage' = IF outcome = "newPageThrows" THEN "null" ELSE "open"
    /\ IF outcome = "ok"
       THEN r_pc' = "get_email" /\ UNCHANGED r_status
       ELSE RunCatch
    /\ UNCHANGED <<r_email, r_sessionToken, r_accessToken, r_regPage,
                   r_harvested, r_saves, r_closes, accounts>>
    /\ UNCHANGED <<retryVars, waitVars, regVars>>

\* email = await tempMail.getEmailAddress()
R_GetEmail(outcome) ==
    /\ r_pc = "get_email"
    /\ IF outcome.ok
       THEN r_email' = outcome.val /\ r_pc' = "reg_init" /\ UNCHANGED r_status
       ELSE r_email' = r_email /\ RunCatch
    /\ UNCHANGED <<r_sessionToken, r_accessToken, r_tmPage, r_regPage,
                   r_harvested, r_saves, r_closes, accounts>>
    /\ UNCHANGED <<retryVars, waitVars, regVars>>

\* await register.init(): newPage, setViewport, setUserAgent, goto; then
\* register.register(email, password, callback) is called
R_RegisterInit(outcome) ==
    /\ r_pc = "reg_init"
    /\ r_regPage' = IF outcome = "newPageThrows" THEN "null" ELSE "open"
    /\ IF outcome = "ok"
       THEN /\ r_pc' = "register"
            /\ g_pc' = "LoginEntry"
            /\ UNCHANGED r_status
       ELSE /\ RunCatch
            /\ UNCHANGED g_pc
    /\ UNCHANGED <<r_email, r_sessionToken, r_accessToken, r_tmPage,
                   r_harvested, r_saves, r_closes, accounts>>
    /\ UNCHANGED <<g_entered, g_finished, g_code, g_banner, g_url, g_result,
                   g_failedAt>>
    /\ UNCHANGED <<retryVars, waitVars>>

\* the steps of register() while registerOne awaits it
R_RegisterStep ==
    /\ r_pc = "register"
    /\ \/ G_StageStart /\ UNCHANGED waitVars
       \/ \E o \in HandlerOutcomes(g_pc) : G_StageInvoke(o) /\ UNCHANGED waitVars
       \/ G_StageSleep /\ UNCHANGED waitVars
       \/ G_StageThrow /\ UNCHANGED waitVars
       \/ G_StageDone /\ UNCHANGED waitVars
       \/ G_StageFailed /\ UNCHANGED waitVars
       \/ G_AwaitCode /\ UNCHANGED retryVars
       \/ G_WaitStep /\ UNCHANGED retryVars
       \/ G_CodeReceived /\ UNCHANGED retryVars
       \/ G_CodeFailed /\ UNCHANGED retryVars
       \/ \E evals \in EvalSeqs(BOOLEAN), ok \in BOOLEAN :
             G_IssueCheck(evals, ok) /\ UNCHANGED <<retryVars, waitVars>>
       \/ \E u \in FinalUrls, evals \in EvalSeqs({Null}) :
             G_Completion(u, evals) /\ UNCHANGED <<retryVars, waitVars>>
    /\ UNCHANGED runVars

\* const success = await register.register(...); if (success) status = success
R_RegisterReturned ==
    /\ r_pc = "register"
    /\ g_pc \in {"returned", "raised"}
    /\ IF g_pc = "raised"
       THEN RunCatch
       ELSE IF g_result.val
            THEN r_status' = StatusSuccess /\ r_pc' = "harvest"
            ELSE r_status' = r_status /\ r_pc' = "save"
    /\ g_pc' = "idle"
    /\ UNCHANGED <<g_entered, g_finished, g_code, g_banner, g_url, g_result,
                   g_failedAt>>
    /\ UNCHANGED <<r_email, r_sessionToken, r_accessToken, r_tmPage, r_regPage,
                   r_harvested, r_saves, r_closes, accounts>>
    /\ UNCHANGED <<retryVars, waitVars>>

\* const tokenResult = await register.getSessionToken(): errors are caught
\* inside; if (tokenResult.sessionToken) sessionToken = ...
R_GetSessionToken(token) ==
    /\ r_pc = "harvest"
    /\ r_harvested' = TRUE
    /\ IF token # Null
       THEN r_sessionToken' = token /\ r_pc' = "exchange"
       ELSE r_sessionToken' = r_sessionToken /\ r_pc' = "save"
    /\ UNCHANGED <<r_email, r_status, r_accessToken, r_tmPage, r_regPage,
                   r_saves, r_closes, accounts>>
    /\ UNCHANGED <<retryVars, waitVars, regVars>>

\* const atResult = await register.sessionToAccessToken(sessionToken):
\* errors are caught inside; if (atResult.accessToken) accessToken = ...
R_SessionToAccessToken(token) ==
    /\ r_pc = "exchange"
    /\ r_accessToken' = IF token # Null THEN token ELSE r_accessToken
    /\ r_pc' = "save"
    /\ UNCHANGED <<r_email, r_status, r_sessionToken, r_tmPage, r_regPage,
                   r_harvested, r_saves, r_closes, accounts>>
    /\ UNCHANGED <<retryVars, waitVars, regVars>>

\* a mutant of ShouldSave: the finally block saves unconditionally
ShouldSaveAlways(email, status) == TRUE
\* a mutant of ShouldSave: nothing is saved
ShouldSaveNever(email, status) == FALSE
\* a mutant of ShouldSave: the status is not looked at
ShouldSaveAnyStatus(email, status) == email # Null
\* if (email && status === success)
ShouldSave(email, status) == email # Null /\ status = StatusSuccess

\* finally: if (email && status === success) await saveAccount({...});
\* saveAccount returns false when the file could not be written
R_Save(written) ==
    /\ r_pc = "save"
    /\ IF ShouldSave(r_email, r_status)
       THEN /\ r_saves' = r_saves + 1
            /\ accounts' =
                 IF written
                 THEN Append(accounts, [email |-> r_email, status |-> r_status,
                                        sessionToken |-> r_sessionToken,
                                        accessToken |-> r_accessToken])
                 ELSE accounts
       ELSE UNCHANGED <<r_saves, accounts>>
    /\ r_pc' = "close_tm"
    /\ UNCHANGED <<r_email, r_status, r_sessionToken, r_accessToken, r_tmPage,
                   r_regPage, r_harvested, r_closes>>
    /\ UNCHANGED <<retryVars, waitVars, regVars>>

\* a mutant of R_CloseTempMail: the close is not guarded, its error leaves
\* the finally block and fails the run
R_CloseTempMailUnguarded(ok) ==
    /\ r_pc = "close_tm"
    /\ IF r_tmPage = "open"
       THEN /\ r_closes' = r_closes \cup {"tempMail"}
            /\ r_tmPage' = IF ok THEN "null" ELSE r_tmPage
            /\ r_pc' = IF ok THEN "close_reg" ELSE "return"
            /\ r_status' = IF ok THEN r_status ELSE StatusFailed
       ELSE /\ r_pc' = "close_reg"
            /\ UNCHANGED <<r_closes, r_tmPage, r_status>>
    /\ UNCHANGED <<r_email, r_sessionToken, r_accessToken, r_regPage,
                   r_harvested, r_saves, accounts>>
    /\ UNCHANGED <<retryVars, waitVars, regVars>>
\* try { await tempMail.close() } catch (e) { warn }:
\* close() is if (this.page) { await this.page.close(); this.page = null }
R_CloseTempMail(ok) ==
    /\ r_pc = "close_tm"
    /\ IF r_tmPage = "open"
       THEN /\ r_closes' = r_closes \cup {"tempMail"}
            /\ r_tmPage' = IF ok THEN "null" ELSE r_tmPage
       ELSE UNCHANGED <<r_closes, r_tmPage>>
    /\ r_pc' = "close_reg"
    /\ UNCHANGED <<r_email, r_status, r_sessionToken, r_accessToken, r_regPage,
                   r_harvested, r_saves, accounts>>
    /\ UNCHANGED <<retryVars, waitVars, regVars>>

\* try { await register.close() } catch (e) { warn }; return status === success
R_CloseRegister(ok) ==
    /\ r_pc = "close_reg"
    /\ IF r_regPage = "open"
       THEN /\ r_closes' = r_closes \cup {"register"}
            /\ r_regPage' = IF ok THEN "null" ELSE r_regPage
       ELSE UNCHANGED <<r_closes, r_regPage>>
    /\ r_pc' = "return"
    /\ UNCHANGED <<r_email, r_status, r_sessionToken, r_accessToken, r_tmPage,
                   r_harvested, r_saves, accounts>>
    /\ UNCHANGED <<retryVars, waitVars, regVars>>

\* the call of registerOne is over: its locals, and the TempMail and
\* OpenAIRegister objects it made, are gone
RunReturned ==
    /\ r_pc' = "idle"
    /\ r_email' = Null
    /\ r_status' = StatusFailed
    /\ r_sessionToken' = Null
    /\ r_accessToken' = Null
    /\ r_tmPage' = "null"
    /\ r_regPage' = "null"
    /\ r_harvested' = FALSE
    /\ r_saves' = 0
    /\ r_closes' = {}
    /\ g_pc' = "idle"
    /\ g_entered' = <<>>
    /\ g_finished' = {}
    /\ g_code' = Undefined
    /\ g_banner' = FALSE
    /\ g_url' = <<>>
    /\ g_result' = Undefined
    /\ g_failedAt' = "none"

RegisterOneStep ==
    \/ \E o \in {"ok", "newPageThrows", "pageThrows"} : R_TempMailInit(o)
    \/ \E o \in {Ok(Email(m_index)), Err(AddressError), Err(ScreenshotError)} :
          R_GetEmail(o)
    \/ \E o \in {"ok", "newPageThrows", "pageThrows"} : R_RegisterInit(o)
    \/ R_RegisterStep
    \/ R_RegisterReturned
    \/ \E t \in SessionTokens : R_GetSessionToken(t)
    \/ \E t \in AccessTokens : R_SessionToAccessToken(t)
    \/ \E w \in BOOLEAN : R_Save(w)
    \/ \E ok \in BOOLEAN : R_CloseTempMail(ok)
    \/ \E ok \in BOOLEAN : R_CloseRegister(ok)

(***************************************************************************)
(* main and the SIGINT handler, index.js 43-49 and 187-411.                *)
(***************************************************************************)
ConnectAttempts == 5

\* a mutant of SIGINT: the signal ends the loop at once, whatever is under way
SIGINTInterrupts ==
    /\ isRunning
    /\ m_pc # "exited"
    /\ isRunning' = FALSE
    /\ m_pc' = "finally"
    /\ UNCHANGED <<m_index, successCount, failCount, debugMode, m_i, browser>>
    /\ UNCHANGED <<retryVars, waitVars, regVars, runVars>>
\* process.on('SIGINT', () => { isRunning = false })
SIGINT ==
    /\ isRunning
    /\ m_pc # "exited"
    /\ isRunning' = FALSE
    /\ UNCHANGED <<m_pc, m_index, successCount, failCount, debugMode, m_i, browser>>
    /\ UNCHANGED <<retryVars, waitVars, regVars, runVars>>

\* the browser is connected to (debug mode, at most 5 attempts, then
\* process.exit(1)) or launched (a failure is caught by main)
M_Launch(ok) ==
    /\ m_pc = "start"
    /\ browser' = IF ok THEN "open" ELSE browser
    /\ m_pc' = IF ok THEN "loop" ELSE IF debugMode THEN "exited" ELSE "finally"
    /\ UNCHANGED <<isRunning, m_index, successCount, failCount, debugMode, m_i>>
    /\ UNCHANGED <<retryVars, waitVars, regVars, runVars>>

\* while (isRunning) { const success = await registerOne(browser, index)
M_LoopTest ==
    /\ m_pc = "loop"
    /\ isRunning => m_index < MaxRuns
    /\ IF isRunning
       THEN /\ m_pc' = "run"
            /\ r_pc' = "tm_init"
            /\ r_email' = Null
            /\ r_status' = StatusFailed
            /\ r_sessionToken' = Null
            /\ r_accessToken' = Null
            /\ r_tmPage' = "null"
            /\ r_regPage' = "null"
            /\ r_harvested' = FALSE
            /\ r_saves' = 0
            /\ r_closes' = {}
            /\ g_pc' = "idle"
            /\ g_entered' = <<>>
            /\ g_finished' = {}
            /\ g_code' = Undefined
            /\ g_banner' = FALSE
            /\ g_url' = <<>>
            /\ g_result' = Undefined
            /\ g_failedAt' = "none"
            /\ UNCHANGED <<retryVars, waitVars>>
            /\ UNCHANGED accounts
       ELSE /\ m_pc' = "finally"
            /\ UNCHANGED <<retryVars, waitVars, regVars, runVars>>
    /\ UNCHANGED <<isRunning, m_index, successCount, failCount, debugMode, m_i,
                   browser>>

M_Run ==
    /\ m_pc = "run"
    /\ RegisterOneStep
    /\ UNCHANGED mainVars

\* a mutant of M_Count: a successful run is counted as a failure as well
M_CountFailureAlways ==
    /\ m_pc = "run"
    /\ r_pc = "return"
    /\ successCount' = IF r_status = StatusSuccess THEN successCount + 1
                                                   ELSE successCount
    /\ failCount' = failCount + 1
    /\ m_index' = m_index + 1
    /\ m_pc' = "boundary"
    /\ UNCHANGED <<isRunning, debugMode, m_i, browser, accounts>>
    /\ RunReturned
    /\ UNCHANGED <<retryVars, waitVars>>
\* a mutant of M_Count: main goes on while the run is still closing its pages
M_CountBeforeClose ==
    /\ m_pc = "run"
    /\ r_pc \in {"close_tm", "close_reg", "return"}
    /\ IF r_status = StatusSuccess
       THEN successCount' = successCount + 1 /\ UNCHANGED failCount
       ELSE failCount' = failCount + 1 /\ UNCHANGED successCount
    /\ m_index' = m_index + 1
    /\ m_pc' = "boundary"
    /\ UNCHANGED <<isRunning, debugMode, m_i, browser, accounts>>
    /\ RunReturned
    /\ UNCHANGED <<retryVars, waitVars>>
\* registerOne returned: if (success) successCount++ else failCount++; index++
M_Count ==
    /\ m_pc = "run"
    /\ r_pc = "return"
    /\ IF r_status = StatusSuccess
       THEN successCount' = successCount + 1 /\ UNCHANGED failCount
       ELSE failCount' = failCount + 1 /\ UNCHANGED successCount
    /\ m_index' = m_index + 1
    /\ m_pc' = "boundary"
    /\ UNCHANGED <<isRunning, debugMode, m_i, browser, accounts>>
    /\ RunReturned
    /\ UNCHANGED <<retryVars, waitVars>>

\* a mutant of M_Boundary: the loop is left after every run
M_BoundaryStops(connected, launched) ==
    /\ m_pc = "boundary"
    /\ m_pc' = IF isRunning THEN "finally" ELSE "loop"
    /\ UNCHANGED <<m_i, browser>>
    /\ UNCHANGED <<isRunning, m_index, successCount, failCount, debugMode>>
    /\ UNCHANGED <<retryVars, waitVars, regVars, runVars>>

\* if (isRunning) { if (!browser.isConnected()) { reconnect or relaunch }
\* else { await clearBrowserData(browser) } ... }
M_Boundary(connected, launched) ==
    /\ m_pc = "boundary"
    /\ IF ~isRunning
       THEN m_pc' = "loop" /\ UNCHANGED <<m_i, browser>>
       ELSE IF connected
            THEN m_pc' = "sleep5" /\ UNCHANGED <<m_i, browser>>
            ELSE IF debugMode
                 THEN m_pc' = "reconnect" /\ m_i' = 0 /\ UNCHANGED browser
                 ELSE /\ m_pc' = IF launched THEN "sleep5" ELSE "finally"
                      /\ UNCHANGED <<m_i, browser>>
    /\ UNCHANGED <<isRunning, m_index, successCount, failCount, debugMode>>
    /\ UNCHANGED <<retryVars, waitVars, regVars, runVars>>

\* for (let i = 0; i < 5; i++) { try { browser = await puppeteer.connect();
\* reconnected = true; break } catch { if (i < 4) sleep(2000) } }
\* if (!reconnected) break
M_Reconnect(ok) ==
    /\ m_pc = "reconnect"
    /\ IF m_i < ConnectAttempts
       THEN IF ok
            THEN m_pc' = "sleep5" /\ UNCHANGED m_i
            ELSE m_pc' = m_pc /\ m_i' = m_i + 1
       ELSE m_pc' = "finally" /\ UNCHANGED m_i
    /\ UNCHANGED <<isRunning, m_index, successCount, failCount, debugMode, browser>>
    /\ UNCHANGED <<retryVars, waitVars, regVars, runVars>>

\* await new Promise(resolve => setTimeout(resolve, 5000)) }
M_Sleep5 ==
    /\ m_pc = "sleep5"
    /\ m_pc' = "loop"
    /\ UNCHANGED <<isRunning, m_index, successCount, failCount, debugMode, m_i,
                   browser>>
    /\ UNCHANGED <<retryVars, waitVars, regVars, runVars>>

\* finally { if (browser) { try { await browser.close() } catch (e) {} } }
M_Finally ==
    /\ m_pc = "finally"
    /\ m_pc' = "exited"
    /\ browser' = IF browser = "open" THEN "closed" ELSE browser
    /\ UNCHANGED <<isRunning, m_index, successCount, failCount, debugMode, m_i>>
    /\ UNCHANGED <<retryVars, waitVars, regVars, runVars>>

MainIdle ==
    /\ m_pc = "idle"
    /\ isRunning = TRUE
    /\ m_index = 0
    /\ successCount = 0
    /\ failCount = 0
    /\ debugMode = FALSE
    /\ m_i = 0
    /\ browser = "none"

(***************************************************************************)
(* Specifications.                                                         *)
(***************************************************************************)
UnitIdle == u_pc = "idle" /\ u_in = Undefined /\ u_out = Undefined

NoRun == RegIdle /\ RunIdle /\ accounts = <<>> /\ MainIdle

InitRetry == RetryIdle /\ ExtractIdle /\ WaitIdle /\ NoRun /\ UnitIdle

NextRetry ==
    \/ \E n \in 0..MaxRetries :
          /\ WithRetryEnter(n)
          /\ UNCHANGED <<extractVars, waitVars, regVars, runVars, mainVars, unitVars>>
    \/ \E o \in FnOutcomes :
          /\ WithRetryCall(o)
          /\ UNCHANGED <<extractVars, waitVars, regVars, runVars, mainVars, unitVars>>
    \/ /\ WithRetrySleep
       /\ UNCHANGED <<extractVars, waitVars, regVars, runVars, mainVars, unitVars>>
    \/ /\ WithRetryThrow
       /\ UNCHANGED <<extractVars, waitVars, regVars, runVars, mainVars, unitVars>>

SpecRetry == InitRetry /\ [][NextRetry]_vars

InitExtract ==
    /\ RetryIdle
    /\ WaitIdle
    /\ NoRun
    /\ UnitIdle
    /\ ex_pc = "start"
    /\ ex_body \in Bodies
    /\ ex_result = Undefined

NextExtract ==
    ExtractCall /\ UNCHANGED <<retryVars, waitVars, regVars, runVars, mainVars, unitVars>>

SpecExtract == InitExtract /\ [][NextExtract]_vars

InitWait == RetryIdle /\ ExtractIdle /\ WaitIdle /\ NoRun /\ UnitIdle

NextWait ==
    \/ \E t \in 0..MaxTimeout :
          /\ WaitEnter(t)
          /\ UNCHANGED <<retryVars, extractVars, regVars, runVars, mainVars, unitVars>>
    \/ /\ WaitStep
       /\ UNCHANGED <<retryVars, extractVars, regVars, runVars, mainVars, unitVars>>

SpecWait == InitWait /\ [][NextWait]_vars

Init ==
    /\ RetryIdle
    /\ ExtractIdle
    /\ UnitIdle
    /\ WaitIdle
    /\ RegIdle
    /\ RunIdle
    /\ accounts = <<>>
    /\ m_pc = "start"
    /\ isRunning = TRUE
    /\ m_index = 0
    /\ successCount = 0
    /\ failCount = 0
    /\ debugMode \in BOOLEAN
    /\ m_i = 0
    /\ browser = "none"

Next ==
    \/ SIGINT /\ UNCHANGED <<extractVars, unitVars>>
    \/ \E ok \in BOOLEAN : M_Launch(ok) /\ UNCHANGED <<extractVars, unitVars>>
    \/ M_LoopTest /\ UNCHANGED <<extractVars, unitVars>>
    \/ M_Run /\ UNCHANGED <<extractVars, unitVars>>
    \/ M_Count /\ UNCHANGED <<extractVars, unitVars>>
    \/ \E c, l \in BOOLEAN : M_Boundary(c, l) /\ UNCHANGED <<extractVars, unitVars>>
    \/ \E ok \in BOOLEAN : M_Reconnect(ok) /\ UNCHANGED <<extractVars, unitVars>>
    \/ M_Sleep5 /\ UNCHANGED <<extractVars, unitVars>>
    \/ M_Finally /\ UNCHANGED <<extractVars, unitVars>>

Spec == Init /\ [][Next]_vars

(***************************************************************************)
(* Claims about withRetry, checked under SpecRetry.                        *)
(***************************************************************************)
AllFailed(trace) == \A k \in DOMAIN trace : ~trace[k].ok

\* C1: for retries = N >= 1, fn is never invoked more than N times; when
\* withRetry raises, fn was invoked exactly N times and failed every time;
\* when withRetry returns, the last invocation k <= N is the first that
\* succeeded, fn was invoked exactly k times, and the value returned is the
\* value of invocation k.
C1_InvokedExactly ==
    wr_retries >= 1 =>
        /\ Len(wr_trace) <= wr_retries
        /\ wr_pc = "thrown" =>
              Len(wr_trace) = wr_retries /\ AllFailed(wr_trace)
        /\ wr_pc = "returned" =>
              LET k == Len(wr_trace)
              IN /\ k >= 1
                 /\ wr_trace[k].ok
                 /\ AllFailed(SubSeq(wr_trace, 1, k - 1))
                 /\ wr_result = wr_trace[k]
        /\ wr_pc \in {"call", "sleep"} => AllFailed(wr_trace)

\* C1 witness: with retries = 3, fn fails once and succeeds on invocation 2
C1_Witness ==
    /\ wr_pc = "returned"
    /\ wr_retries = 3
    /\ Len(wr_trace) = 2
    /\ ~wr_trace[1].ok
    /\ wr_result = wr_trace[2]

\* C2: when all N >= 1 attempts have failed, withRetry does not return: it
\* is about to raise or has raised, and the error it raises is the error of
\* attempt N.
C2_LastErrorSurfaced ==
    (wr_retries >= 1 /\ Len(wr_trace) = wr_retries /\ AllFailed(wr_trace)) =>
        /\ wr_pc \in {"call", "thrown"}
        /\ wr_pc = "thrown" => wr_result = Err(wr_trace[wr_retries].val)

\* C2 witness: three attempts fail, the first and the last with different
\* errors, and withRetry has raised
C2_Witness ==
    /\ wr_pc = "thrown"
    /\ wr_retries = 3
    /\ Len(wr_trace) = 3
    /\ wr_trace[1].val # wr_trace[3].val
    /\ wr_result = Err(wr_trace[3].val)

(***************************************************************************)
(* Claims about extractVerificationCode, checked under SpecExtract.        *)
(***************************************************************************)
YourCodeIs482913 ==
    <<"Y","o","u","r"," ","c","o","d","e"," ","i","s"," ">> \o Code482913
HasSixDigitRun(text) == \E p \in 1..Len(text) : SixDigitsAt(text, p)
IsSixDigitString(v) ==
    /\ v.kind = "string"
    /\ Len(v.chars) = 6
    /\ \A k \in 1..6 : v.chars[k] \in Digit

MatchingPatterns(text) ==
    {n \in DOMAIN codePatterns : match(text, codePatterns[n]) # Null}
FirstMatching(text) ==
    CHOOSE n \in MatchingPatterns(text) : \A k \in MatchingPatterns(text) : n <= k

\* C10: the value returned is the capture of the pattern with the lowest
\* list index among the patterns that match somewhere in the body, wherever
\* the other patterns match; null is returned only when no pattern matches,
\* so the bare six-digit pattern (the last) decides only when no labelled
\* pattern matches.
C10_FirstPatternInListWins ==
    ex_pc = "done" =>
        IF MatchingPatterns(ex_body) = {}
        THEN ex_result = Null
        ELSE ex_result =
                Str(match(ex_body, codePatterns[FirstMatching(ex_body)]).group1)

\* C10 witness: a later pattern of the list matches at an earlier position
\* and captures other digits, and the earlier pattern's capture is returned
C10_Witness ==
    /\ ex_pc = "done"
    /\ \E n, k \in MatchingPatterns(ex_body) :
          /\ n = FirstMatching(ex_body)
          /\ n < k
          /\ match(ex_body, codePatterns[k]).index
               < match(ex_body, codePatterns[n]).index
          /\ match(ex_body, codePatterns[k]).group1
               # match(ex_body, codePatterns[n]).group1
          /\ ex_result = Str(match(ex_body, codePatterns[n]).group1)

(***************************************************************************)
(* Claims about waitForVerificationCode, checked under SpecWait.           *)
(***************************************************************************)
\* C7: a call of waitForVerificationCode in which no poll extracts a code
\* ends by raising the verification-timeout error; a call returns only a
\* code that a poll extracted.
C7_EndsInTimeoutError ==
    /\ w_pc = "returned" => w_result.ok /\ Truthy(w_result.val)
    /\ w_pc = "thrown" => w_result = Err(TimeoutError)

StageOrder == <<"LoginEntry", "SignupEntry", "EmailEntry", "PasswordEntry",
                "AwaitCode", "CodeEntry", "ProfileEntry", "IssueCheck",
                "UsernameEntry", "Completion">>
IsPrefix(p, q) == Len(p) <= Len(q) /\ \A k \in 1..Len(p) : p[k] = q[k]
InSeq(x, q) == \E k \in 1..Len(q) : q[k] = x
RegisterRunning == g_pc \in {StageOrder[k] : k \in 1..Len(StageOrder)}

\* C3: the stages of register() are entered in the order LoginEntry,
\* SignupEntry, EmailEntry, PasswordEntry, AwaitCode, CodeEntry, ProfileEntry,
\* IssueCheck, UsernameEntry, Completion: the stages entered so far are a
\* prefix of that order (none skipped, none entered again after a later
\* one), every stage before the last one entered has finished without
\* raising, and the stage the run is at is the first one not yet finished.
C3_StagesInFixedOrder ==
    /\ IsPrefix(g_entered, StageOrder)
    /\ \A k \in 1..Len(g_entered) :
          k < Len(g_entered) => g_entered[k] \in g_finished
    /\ \A st \in g_finished : InSeq(st, g_entered)
    /\ RegisterRunning =>
          /\ g_pc \notin g_finished
          /\ \A k \in 1..Len(g_entered) :
                g_entered[k] # g_pc => g_entered[k] \in g_finished
          /\ IsPrefix(g_entered \o (IF InSeq(g_pc, g_entered) THEN <<>> ELSE <<g_pc>>),
                      StageOrder)
C3_Witness ==
    /\ g_pc = "returned"
    /\ g_entered = StageOrder
    /\ g_finished = {StageOrder[k] : k \in 1..Len(StageOrder)}

\* C4: once the issue check after ProfileEntry has found the failure banner,
\* enterUsername is not invoked, register() has raised and does not return,
\* the status of the run is the failed one, no token is harvested, and
\* saveAccount is not called, so that no account of the run is in the file.
C4_BannerAbortsRun ==
    g_banner =>
        /\ ~InSeq("UsernameEntry", g_entered)
        /\ ~InSeq("Completion", g_entered)
        /\ g_failedAt = "IssueCheck"
        /\ g_pc \in {"raised", "idle"}
        /\ ~g_result.ok
        /\ r_status = StatusFailed
        /\ ~r_harvested
        /\ r_sessionToken = Null /\ r_accessToken = Null
        /\ r_saves = 0
        /\ \A k \in 1..Len(accounts) : accounts[k].email # r_email
C4_Witness ==
    /\ g_banner
    /\ g_result = Err(BannerError)
    /\ r_pc = "return"
    /\ r_email = Email(m_index)
    /\ "ProfileEntry" \in g_finished

\* C5: every stage handler is invoked at most 3 times in its stage; when a
\* handler has failed on all its invocations, no later stage is entered,
\* register() has raised, the status of the run is the failed one, nothing
\* is saved, and main counts the run as failed and not as successful.
C5_StageInvocationsBounded ==
    /\ g_pc \in HandlerStages => Len(wr_trace) <= 3
    /\ (g_pc \in HandlerStages /\ wr_pc = "thrown") =>
          /\ Len(wr_trace) = 3
          /\ \A k \in 1..3 : ~wr_trace[k].ok
    /\ g_failedAt \in HandlerStages =>
          /\ g_entered[Len(g_entered)] = g_failedAt
          /\ g_failedAt \notin g_finished
          /\ g_pc \in {"raised", "idle"}
          /\ ~g_result.ok
          /\ r_status = StatusFailed
          /\ r_saves = 0
C5_ExhaustedRunCountedFailed ==
    (g_failedAt \in HandlerStages /\ m_pc = "run" /\ m_pc' = "boundary") =>
        /\ failCount' = failCount + 1
        /\ successCount' = successCount
C5_ExhaustionIsFatal ==
    [](C5_StageInvocationsBounded) /\ [][C5_ExhaustedRunCountedFailed]_vars
C5_Witness ==
    /\ g_failedAt = "EmailEntry"
    /\ g_result = Err(StageError("EmailEntry"))
    /\ g_entered = <<"LoginEntry", "SignupEntry", "EmailEntry">>
    /\ r_pc = "return"
    /\ r_status = StatusFailed

(* the host of a URL text https://host/... *)
RECURSIVE HostFrom(_, _)
HostFrom(url, k) ==
    IF k > Len(url) \/ url[k] \in {"/", "?", "#"}
    THEN <<>>
    ELSE <<url[k]>> \o HostFrom(url, k + 1)
HostOf(url) == HostFrom(url, Len(Https) + 1)
EndsWith(text, tail) ==
    /\ Len(tail) <= Len(text)
    /\ SubSeq(text, Len(text) - Len(tail) + 1, Len(text)) = tail
\* the URL is on domain d: its host is d or a subdomain of d
OnDomain(url, d) == HostOf(url) = d \/ EndsWith(HostOf(url), <<".">> \o d)
OnTargetDomain(url) ==
    \/ OnDomain(url, SoraHost)
    \/ OnDomain(url, ChatHost)
    \/ OnDomain(url, ChatGptHost)

\* C6: when all stages have completed, register() returns a boolean and does
\* not raise from the completion check, and it returns true exactly when the
\* final URL is not on auth.openai.com and is on sora.com, chat.openai.com
\* or chatgpt.com.
C6_CompletionClassifiesByDomain ==
    /\ g_failedAt # "Completion"
    /\ (g_pc = "returned" /\ "Completion" \in g_finished) =>
          /\ g_result.ok
          /\ g_result.val \in BOOLEAN
          /\ g_result.val =
                (~OnDomain(g_url, AuthHost) /\ OnTargetDomain(g_url))

(***************************************************************************)
(* TempMailService.getEmailAddress, tempmail.js 70-153.                    *)
(***************************************************************************)
MaxEmailFrags == 3   \* a page body is made of at most MaxEmailFrags pieces

Letter == Range(LowerAlpha) \cup Range(UpperAlpha)
\* the class [a-zA-Z0-9._%+-]
LocalChar == Letter \cup Digit \cup {".", "_", "%", "+", "-"}
\* the class [a-zA-Z0-9.-]
DomainChar == Letter \cup Digit \cup {".", "-"}

\* the last position of the longest run of characters of class that starts
\* at position s (s - 1 when there is none): a greedy quantifier
RunEnd(text, s, class) ==
    LET us == {u \in (s - 1)..Len(text) : \A k \in s..u : text[k] \in class}
    IN CHOOSE u \in us : \A v \in us : v <= u

\* [a-zA-Z0-9.-]+\.[a-zA-Z]{2,} after the @ at position q: the position of
\* the last character matched, 0 when there is no match. The greedy domain
\* part gives back characters until a dot followed by two letters is found.
EmailEndAfter(text, q) ==
    LET r == RunEnd(text, q + 1, DomainChar)
        ds == {d \in (q + 2)..r :
                 /\ text[d] = "."
                 /\ d + 2 <= Len(text)
                 /\ text[d + 1] \in Letter
                 /\ text[d + 2] \in Letter}
    IN IF ds = {} THEN 0
       ELSE LET d == CHOOSE x \in ds : \A y \in ds : y <= x
            IN RunEnd(text, d + 1, Letter)

\* the pattern of emailRegex tried at position s: the position of the last
\* character matched, 0 when there is no match
EmailEndAt(text, s) ==
    LET u == RunEnd(text, s, LocalChar)
    IN IF u >= s /\ u + 1 <= Len(text) /\ text[u + 1] = "@"
       THEN EmailEndAfter(text, u + 1)
       ELSE 0

RECURSIVE EmailMatchesFrom(_, _)
\* bodyText.match(emailRegex) with the g flag: the matches from left to
\* right, each search starting after the previous match
EmailMatchesFrom(text, from) ==
    LET starts == {p \in from..Len(text) : EmailEndAt(text, p) # 0}
    IN IF starts = {} THEN <<>>
       ELSE LET p == CHOOSE x \in starts : \A y \in starts : x <= y
                e == EmailEndAt(text, p)
            IN <<SubSeq(text, p, e)>> \o EmailMatchesFrom(text, e + 1)

\* value.match(/^[a-zA-Z0-9._%+-]+@[a-zA-Z0-9.-]+\.[a-zA-Z]{2,}$/)
FullEmail(value) ==
    \E q \in 2..Len(value), d \in 1..Len(value) :
        /\ value[q] = "@"
        /\ \A k \in 1..(q - 1) : value[k] \in LocalChar
        /\ d > q + 1
        /\ value[d] = "."
        /\ \A k \in (q + 1)..(d - 1) : value[k] \in DomainChar
        /\ Len(value) >= d + 2
        /\ \A k \in (d + 1)..Len(value) : value[k] \in Letter

RECURSIVE trimStart(_)
trimStart(text) ==
    IF text # <<>> /\ Head(text) \in SpaceChar THEN trimStart(Tail(text)) ELSE text
RECURSIVE trimEnd(_)
trimEnd(text) ==
    IF text # <<>> /\ text[Len(text)] \in SpaceChar
    THEN trimEnd(SubSeq(text, 1, Len(text) - 1))
    ELSE text
\* String.prototype.trim
trim(text) == trimEnd(trimStart(text))

\* if (input.value && input.value.includes('@') && input.value.includes('.'))
\* and the trimmed value matches the anchored pattern
EmailInput(value) ==
    /\ value # <<>>
    /\ includes(value, <<"@">>)
    /\ includes(value, <<".">>)
    /\ FullEmail(trim(value))

\* !email.includes('example') && !email.includes('test@'), negated
IsPlaceholder(email) ==
    \/ includes(email, <<"e","x","a","m","p","l","e">>)
    \/ includes(email, <<"t","e","s","t","@">>)

\* the addresses of q that are not placeholders, in order
RECURSIVE NotPlaceholders(_)
NotPlaceholders(q) ==
    IF q = <<>> THEN <<>>
    ELSE (IF IsPlaceholder(Head(q)) THEN <<>> ELSE <<Head(q)>>)
         \o NotPlaceholders(Tail(q))

\* the script of tempmail.js 109-136: the value assigned to this.email
PageEmail(inputs, bodyText) ==
    LET hits == {k \in 1..Len(inputs) : EmailInput(inputs[k])}
        matches == EmailMatchesFrom(bodyText, 1)
        kept == NotPlaceholders(matches)
    IN IF hits # {}
       THEN Str(trim(inputs[CHOOSE k \in hits : \A j \in hits : k <= j]))
       ELSE IF matches # <<>>
            THEN IF kept # <<>> THEN Str(kept[1]) ELSE Str(matches[1])
            ELSE Null

\* getEmailAddress: the script is evaluated (evaluateOk), a found address is
\* returned; otherwise debug-no-email.png is taken (shot1Ok) and the
\* address error thrown; the catch block takes debug-tempmail-error.png
\* (shot2Ok) and rethrows
getEmailAddress(inputs, bodyText, evaluateOk, shot1Ok, shot2Ok) ==
    LET email == PageEmail(inputs, bodyText)
        thrown == IF ~evaluateOk THEN EvaluateError
                  ELSE IF shot1Ok THEN AddressError ELSE ScreenshotError
    IN IF evaluateOk /\ Truthy(email)
       THEN Ok(email)
       ELSE IF shot2Ok THEN Err(thrown) ELSE Err(ScreenshotError)

EmailFragments ==
    { <<"a","@","b",".","c","o">>,
      <<"t","e","s","t","@","b",".","c","o">>,
      <<"x","@","e","x","a","m","p","l","e",".","i","o">>,
      <<"m","e","@","c",".","d","e","v">>,
      <<" ">>,
      <<"h","i">>,
      <<"@">>,
      <<".">>,
      <<"q","@","r",".","s","1">> }
RECURSIVE EmailBodiesOf(_)
EmailBodiesOf(n) ==
    IF n = 0 THEN {<<>>}
    ELSE EmailBodiesOf(n - 1)
         \cup {b \o f : b \in EmailBodiesOf(n - 1), f \in EmailFragments}
\* document.querySelectorAll('input'), as the sequence of the values
InputLists ==
    { <<>>,
      << <<>> >>,
      << <<"s","e","a","r","c","h">>, <<"x","@","y">> >>,
      << <<"n","o","@","t","l","d",".","c">>, <<" ","i","n","@","b","o","x",".","i","o"," ">> >> }

EmailCall ==
    /\ u_pc = "start"
    /\ \E evaluateOk, shot1Ok, shot2Ok \in BOOLEAN :
          u_out' = getEmailAddress(u_in.inputs, u_in.bodyText,
                                   evaluateOk, shot1Ok, shot2Ok)
    /\ u_pc' = "done"
    /\ UNCHANGED u_in

InitEmail ==
    /\ RetryIdle
    /\ ExtractIdle
    /\ WaitIdle
    /\ NoRun
    /\ u_pc = "start"
    /\ u_in \in {[inputs |-> i, bodyText |-> b] :
                    i \in InputLists, b \in EmailBodiesOf(MaxEmailFrags)}
    /\ u_out = Undefined

NextEmail ==
    EmailCall /\ UNCHANGED <<retryVars, extractVars, waitVars, regVars, runVars, mainVars>>

SpecEmail == InitEmail /\ [][NextEmail]_vars

NoEmailInput == \A k \in 1..Len(u_in.inputs) : ~EmailInput(u_in.inputs[k])
PageTokens == EmailMatchesFrom(u_in.bodyText, 1)

\* C11: when no input element holds an email-shaped value, getEmailAddress
\* returns the first email-shaped token of the page text that is not a
\* placeholder (contains "example" or "test@"); an address returned from the
\* page text is never a placeholder, and when every token is a placeholder,
\* or there is none, the call does not return an address.
C11_FirstNonPlaceholderToken ==
    (u_pc = "done" /\ NoEmailInput /\ u_out.ok) =>
        /\ NotPlaceholders(PageTokens) # <<>>
        /\ u_out.val = Str(NotPlaceholders(PageTokens)[1])
        /\ ~IsPlaceholder(u_out.val.chars)

(***************************************************************************)
(* One call of OpenAIRegister.safeEvaluate, register.js 123-141.           *)
(***************************************************************************)
MaxEvals == 3   \* safeEvaluate is explored for retries in 0..MaxEvals

AllEvaluateErrors ==
    {ContextDestroyedError, NavigationError, TargetClosedError, ProtocolError}
EvaluateOutcomes ==
    {Ok(Value("v1")), Ok(Null)} \cup {Err(e) : e \in AllEvaluateErrors}

SafeEvaluateCall ==
    /\ u_pc = "start"
    /\ u_out' = safeEvaluate(u_in.evals, u_in.defaultValue, u_in.retries)
    /\ u_pc' = "done"
    /\ UNCHANGED u_in

InitSafeEvaluate ==
    /\ RetryIdle
    /\ ExtractIdle
    /\ WaitIdle
    /\ NoRun
    /\ u_pc = "start"
    /\ u_in \in {[evals |-> e, defaultValue |-> dv, retries |-> n] :
                    e \in [1..MaxEvals -> EvaluateOutcomes],
                    dv \in {Null, Value("default")}, n \in 0..MaxEvals}
    /\ u_out = Undefined

NextSafeEvaluate ==
    SafeEvaluateCall
    /\ UNCHANGED <<retryVars, extractVars, waitVars, regVars, runVars, mainVars>>

SpecSafeEvaluate == InitSafeEvaluate /\ [][NextSafeEvaluate]_vars

\* the errors whose message names a navigation, by the claims' own list
NavigationClassErrors == {ContextDestroyedError, NavigationError, TargetClosedError}
NonNavigationFailure(o) == ~o.ok /\ o.val \notin NavigationClassErrors
NavigationFailure(o) == ~o.ok /\ o.val \in NavigationClassErrors

\* C12: in safeEvaluate an error of page.evaluate whose message contains none
\* of "Execution context was destroyed", "navigation", "Target closed" is
\* raised to the caller at its first occurrence: it is the outcome of the
\* call, the script is not evaluated again, and no delay follows it (the
\* delays taken are those of the evaluations before it).
C12_OtherErrorsRaisedAtOnce ==
    u_pc = "done" =>
        \A k \in 1..MaxEvals :
            (k <= u_out.evaluations /\ NonNavigationFailure(u_in.evals[k])) =>
                /\ u_out.result = u_in.evals[k]
                /\ u_out.evaluations = k
                /\ u_out.sleeps = k - 1
C12_Witness ==
    /\ u_pc = "done"
    /\ u_in.retries = 3
    /\ u_in.evals[1] = Err(NavigationError)
    /\ u_in.evals[2] = Err(ProtocolError)
    /\ u_in.evals[3] = Ok(Value("v1"))
    /\ u_out = [result |-> Err(ProtocolError), evaluations |-> 2, sleeps |-> 1]

\* C13: a navigation-class error of page.evaluate is never the outcome of
\* safeEvaluate, however many evaluations in a row fail with one.
C13_NavigationErrorsNeverSurface ==
    u_pc = "done" => ~NavigationFailure(u_out.result)

(***************************************************************************)
(* OpenAIRegister.waitForElement, register.js 146-160.                     *)
(* attempts[k] is what the page does in iteration k: "timeout" when        *)
(* waitForSelector rejects, and when it resolves what page.$(selector)     *)
(* does next: "found" (an element), "gone" (null), "queryThrows".          *)
(***************************************************************************)
MaxAttempts == 3   \* waitForElement is explored for retries in 0..MaxAttempts

Element == [kind |-> "element"]
AttemptOutcomes == {"timeout", "found", "gone", "queryThrows"}

RECURSIVE WaitForElementFrom(_, _, _)
\* for (let i = 0; i < retries; i++) { try { await waitForSelector(...);
\* return await this.page.$(selector) } catch (e) { if (i < retries - 1)
\* await this.sleep(2000) } } return null
WaitForElementFrom(attempts, i, retries) ==
    IF ~(i < retries)
    THEN [result |-> Ok(Null), waits |-> i,
          sleeps |-> IF i = 0 THEN 0 ELSE i - 1]
    ELSE IF attempts[i + 1] = "found"
         THEN [result |-> Ok(Element), waits |-> i + 1, sleeps |-> i]
         ELSE IF attempts[i + 1] = "gone"
              THEN [result |-> Ok(Null), waits |-> i + 1, sleeps |-> i]
              ELSE WaitForElementFrom(attempts, i + 1, retries)

waitForElement(attempts, retries) == WaitForElementFrom(attempts, 0, retries)

WaitForElementCall ==
    /\ u_pc = "start"
    /\ u_out' = waitForElement(u_in.attempts, u_in.retries)
    /\ u_pc' = "done"
    /\ UNCHANGED u_in

InitWaitForElement ==
    /\ RetryIdle
    /\ ExtractIdle
    /\ WaitIdle
    /\ NoRun
    /\ u_pc = "start"
    /\ u_in \in {[attempts |-> a, retries |-> n] :
                    a \in [1..MaxAttempts -> AttemptOutcomes], n \in 0..MaxAttempts}
    /\ u_out = Undefined

NextWaitForElement ==
    WaitForElementCall
    /\ UNCHANGED <<retryVars, extractVars, waitVars, regVars, runVars, mainVars>>

SpecWaitForElement == InitWaitForElement /\ [][NextWaitForElement]_vars

\* C14: waitForElement never raises; it returns an element or null, and it
\* returns null only after all `retries` wait attempts were made and failed.
C14_NotFoundOnlyAfterAllAttempts ==
    u_pc = "done" =>
        /\ u_out.result.ok
        /\ u_out.result.val \in {Element, Null}
        /\ u_out.result.val = Null =>
              /\ u_out.waits = u_in.retries
              /\ \A k \in 1..u_in.retries : u_in.attempts[k] = "timeout"

(***************************************************************************)
(* OpenAIRegister.waitForPageLoad, register.js 165-202.                    *)
(* Time is counted in half seconds: sleep(500) is 1, sleep(1000) is 2.     *)
(* probes[k] is the outcome of the k-th evaluation of the loading probe:   *)
(* Ok(TRUE) when a loading indicator is visible.                           *)
(***************************************************************************)
MaxLoadTimeout == 3   \* waitForPageLoad is explored for timeouts 0..MaxLoadTimeout

SleepAfterProbe == 1
SleepAfterRace == 2
ProbeOutcomes == {Ok(TRUE), Ok(FALSE)} \cup {Err(e) : e \in AllEvaluateErrors}

\* the test of the catch block of waitForPageLoad
IsNavigationRace(e) ==
    \/ includes(MessageText(e),
                <<"E","x","e","c","u","t","i","o","n"," ","c","o","n","t","e","x","t",
                  " ","w","a","s"," ","d","e","s","t","r","o","y","e","d">>)
    \/ includes(MessageText(e), <<"n","a","v","i","g","a","t","i","o","n">>)

RECURSIVE WaitForPageLoadFrom(_, _, _, _)
WaitForPageLoadFrom(probes, k, now, timeout) ==
    IF ~(now < timeout)
    THEN [result |-> Ok(FALSE), probed |-> k - 1, elapsed |-> now]
    ELSE LET hasLoading == probes[k]
         IN IF hasLoading.ok
            THEN IF ~hasLoading.val
                 THEN [result |-> Ok(TRUE), probed |-> k, elapsed |-> now]
                 ELSE WaitForPageLoadFrom(probes, k + 1, now + SleepAfterProbe, timeout)
            ELSE IF IsNavigationRace(hasLoading.val)
                 THEN WaitForPageLoadFrom(probes, k + 1, now + SleepAfterRace, timeout)
                 ELSE [result |-> hasLoading, probed |-> k, elapsed |-> now]

waitForPageLoad(probes, timeout) == WaitForPageLoadFrom(probes, 1, 0, timeout)

WaitForPageLoadCall ==
    /\ u_pc = "start"
    /\ u_out' = waitForPageLoad(u_in.probes, u_in.timeout)
    /\ u_pc' = "done"
    /\ UNCHANGED u_in

InitWaitForPageLoad ==
    /\ RetryIdle
    /\ ExtractIdle
    /\ WaitIdle
    /\ NoRun
    /\ u_pc = "start"
    /\ u_in \in {[probes |-> q, timeout |-> t] :
                    q \in [1..MaxLoadTimeout -> ProbeOutcomes], t \in 0..MaxLoadTimeout}
    /\ u_out = Undefined

NextWaitForPageLoad ==
    WaitForPageLoadCall
    /\ UNCHANGED <<retryVars, extractVars, waitVars, regVars, runVars, mainVars>>

SpecWaitForPageLoad == InitWaitForPageLoad /\ [][NextWaitForPageLoad]_vars

\* C15: waitForPageLoad always returns a boolean and never raises, whatever
\* error the evaluation of the probe produces: true when a probe finds no
\* visible loading indicator, false when the timeout elapses first.
C15_AlwaysABoolean ==
    u_pc = "done" =>
        /\ u_out.result.ok
        /\ u_out.result.val \in BOOLEAN
        /\ u_out.result.val = TRUE =>
              u_in.probes[u_out.probed] = Ok(FALSE)
        /\ u_out.result.val = FALSE => u_out.elapsed >= u_in.timeout

(***************************************************************************)
(* The resolution of the username field in enterUsername,                  *)
(* register.js 560-613.  A DOM snapshot gives, for every selector of the   *)
(* list, what page.$(selector) and the visibility probe of its result do:  *)
(* "none" (no match), "hidden", "visible", or "throws".                    *)
(***************************************************************************)
NumSelectors == 8
SelectorAnswers == {"none", "hidden", "visible", "throws"}
Snapshots == [1..NumSelectors -> SelectorAnswers]
MatchOf(k) == [kind |-> "element", selector |-> k]
GenericInput == [kind |-> "element", selector |-> 0]

\* a mutant of LeavesLoop: the loop goes on after a visible match
LeavesLoopNever(answer) == FALSE
\* if (usernameInput) { ...; if (isVisible) break }
LeavesLoop(answer) == answer = "visible"

\* const selectors = [...]; let usernameInput = null
ResolveEnter ==
    /\ u_pc = "start"
    /\ u_pc' = "loop"
    /\ u_out' = [i |-> 1, usernameInput |-> Null, evaluated |-> <<>>]
    /\ UNCHANGED u_in

\* one iteration of for (const selector of selectors)
ResolveCandidate ==
    /\ u_pc = "loop"
    /\ u_out.i <= NumSelectors
    /\ LET answer == u_in[u_out.i]
       IN IF LeavesLoop(answer)
          THEN /\ u_out' = [u_out EXCEPT !.usernameInput = MatchOf(u_out.i),
                                         !.evaluated = Append(@, u_out.i)]
               /\ u_pc' = "done"
          ELSE /\ u_out' = [u_out EXCEPT !.usernameInput = Null,
                                         !.evaluated = Append(@, u_out.i),
                                         !.i = @ + 1]
               /\ u_pc' = "loop"
    /\ UNCHANGED u_in

\* the list is exhausted: if (!usernameInput) the inputs of the page are
\* looked through for a visible one
ResolveGeneric(found) ==
    /\ u_pc = "loop"
    /\ u_out.i > NumSelectors
    /\ u_out' = [u_out EXCEPT !.usernameInput =
                                  IF found THEN GenericInput ELSE Null]
    /\ u_pc' = "done"
    /\ UNCHANGED u_in

InitResolve ==
    /\ RetryIdle
    /\ ExtractIdle
    /\ WaitIdle
    /\ NoRun
    /\ u_pc = "start"
    /\ u_in \in Snapshots
    /\ u_out = Undefined

NextResolve ==
    \/ /\ ResolveEnter
       /\ UNCHANGED <<retryVars, extractVars, waitVars, regVars, runVars, mainVars>>
    \/ /\ ResolveCandidate
       /\ UNCHANGED <<retryVars, extractVars, waitVars, regVars, runVars, mainVars>>
    \/ \E found \in BOOLEAN :
          /\ ResolveGeneric(found)
          /\ UNCHANGED <<retryVars, extractVars, waitVars, regVars, runVars, mainVars>>

SpecResolve == InitResolve /\ [][NextResolve]_vars

VisibleCandidates == {k \in 1..NumSelectors : u_in[k] = "visible"}
LowestVisible == CHOOSE k \in VisibleCandidates : \A j \in VisibleCandidates : k <= j

\* C16: the resolution of the username field walks the selectors in list
\* order; when it ends with some candidate visible in the snapshot, the
\* element selected is the match of the lowest-index visible candidate, no
\* later candidate was evaluated, and a selected element is never replaced:
\* the outcome is a function of the snapshot, so two resolutions against the
\* same snapshot select the same candidate.
C16_LowestVisibleCandidateWins ==
    /\ u_pc \in {"loop", "done"} =>
          /\ \A k \in 1..Len(u_out.evaluated) : u_out.evaluated[k] = k
          /\ \A k \in 1..Len(u_out.evaluated) :
                k < Len(u_out.evaluated) => u_in[k] # "visible"
          /\ (u_out.usernameInput # Null /\ u_out.usernameInput # GenericInput) =>
                /\ u_pc = "done"
                /\ u_out.usernameInput = MatchOf(LowestVisible)
                /\ Len(u_out.evaluated) = LowestVisible
    /\ (u_pc = "done" /\ VisibleCandidates # {}) =>
          /\ u_out.usernameInput = MatchOf(LowestVisible)
          /\ Len(u_out.evaluated) = LowestVisible
C16_Witness ==
    /\ u_pc = "done"
    /\ u_in[1] = "hidden"
    /\ u_in[2] = "throws"
    /\ u_in[3] = "visible"
    /\ u_in[5] = "visible"
    /\ u_out.usernameInput = MatchOf(3)
    /\ u_out.evaluated = <<1, 2, 3>>

(***************************************************************************)
(* OpenAIRegister.generateBirthday, register.js 61-74 (the same draws are  *)
(* made in enterNameAndBirthday, register.js 427-430).                     *)
(* A draw is the value of Math.floor(Math.random() * n), in 0..n-1.        *)
(***************************************************************************)
GenerationYear == 2026   \* the calendar year of the explored generation dates

YearDraws == 22
YearOffset == 18
MonthDraws == 12
DayDraws == 28

DaysIn(year, month) ==
    IF month = 2
    THEN IF year % 4 = 0 /\ (year % 100 # 0 \/ year % 400 = 0) THEN 29 ELSE 28
    ELSE IF month \in {4, 6, 9, 11} THEN 30 ELSE 31

RECURSIVE Decimal(_)
\* String(n) of a natural number
Decimal(n) ==
    IF n < 10 THEN <<ToString(n)>>
    ELSE Decimal(n \div 10) \o <<ToString(n % 10)>>
\* String(n).padStart(2, '0')
padStart2(text) == IF Len(text) < 2 THEN <<"0">> \o text ELSE text

\* generateBirthday(isChinesePage) called in year currentYear with the
\* three draws
generateBirthday(currentYear, isChinesePage, drawYear, drawMonth, drawDay) ==
    LET year == Decimal(currentYear - drawYear - YearOffset)
        month == padStart2(Decimal(drawMonth + 1))
        day == padStart2(Decimal(drawDay + 1))
    IN IF isChinesePage
       THEN year \o <<"/">> \o month \o <<"/">> \o day
       ELSE month \o <<"/">> \o day \o <<"/">> \o year

GenerationDates ==
    {[year |-> GenerationYear, month |-> m, day |-> dd] :
        m \in 1..12, dd \in {1, 28}}
    \cup {[year |-> GenerationYear, month |-> m, day |-> DaysIn(GenerationYear, m)] :
             m \in 1..12}

BirthdayCall ==
    /\ u_pc = "start"
    /\ \E drawYear \in 0..(YearDraws - 1), drawMonth \in 0..(MonthDraws - 1),
          drawDay \in 0..(DayDraws - 1) :
          u_out' = Str(generateBirthday(u_in.today.year, u_in.isChinesePage,
                                        drawYear, drawMonth, drawDay))
    /\ u_pc' = "done"
    /\ UNCHANGED u_in

InitBirthday ==
    /\ RetryIdle
    /\ ExtractIdle
    /\ WaitIdle
    /\ NoRun
    /\ u_pc = "start"
    /\ u_in \in {[today |-> t, isChinesePage |-> c] :
                    t \in GenerationDates, c \in BOOLEAN}
    /\ u_out = Undefined

NextBirthday ==
    BirthdayCall
    /\ UNCHANGED <<retryVars, extractVars, waitVars, regVars, runVars, mainVars>>

SpecBirthday == InitBirthday /\ [][NextBirthday]_vars

(* reading a generated birthday: the three numbers of the text *)
BirthdayField(text, from, len) == parseInt(SubSeq(text, from, from + len - 1))
BirthdayOf(text, isChinesePage) ==
    IF isChinesePage
    THEN [year |-> BirthdayField(text, 1, 4), month |-> BirthdayField(text, 6, 2),
          day |-> BirthdayField(text, 9, 2)]
    ELSE [month |-> BirthdayField(text, 1, 2), day |-> BirthdayField(text, 4, 2),
          year |-> BirthdayField(text, 7, 4)]
\* the age on date today of a person born on date born
AgeOn(today, born) ==
    today.year - born.year
    - (IF born.month > today.month
          \/ (born.month = today.month /\ born.day > today.day)
       THEN 1 ELSE 0)

\* C17: for every outcome of the draws and every generation date, the
\* generated birthday has month in 1..12, day in 1..28, and a year such that
\* the age on the generation date (a birthday later in the year not yet
\* counted) is at least 18 and at most 40.
C17_AgeBetween18And40 ==
    u_pc = "done" =>
        LET born == BirthdayOf(u_out.chars, u_in.isChinesePage)
        IN /\ born.month \in 1..12
           /\ born.day \in 1..28
           /\ AgeOn(u_in.today, born) >= 18
           /\ AgeOn(u_in.today, born) <= 40

(***************************************************************************)
(* OpenAIRegister.sessionToAccessToken, register.js 1042-1154.             *)
(* JavaScript values: null, undefined, numbers, strings and objects with   *)
(* the properties the function reads.                                      *)
(***************************************************************************)
Num(n) == [kind |-> "number", value |-> n]
Obj(accessToken, user, expires, error) ==
    [kind |-> "object", accessToken |-> accessToken, user |-> user,
     expires |-> expires, error |-> error]
TypeError == Error("Cannot read properties of null")
SyntaxError == Error("Unexpected token in JSON")
FetchError == Error("page.evaluate failed")
CookieError == Error("page.setCookie failed")
GotoError == Error("page.goto failed")

\* ToBoolean of a value: if (v), v || w
ToBoolean(v) ==
    CASE v.kind \in {"null", "undefined"} -> FALSE
      [] v.kind = "string" -> v.chars # <<>>
      [] v.kind = "number" -> v.value # 0
      [] OTHER -> TRUE
\* v || null
OrNull(v) == IF ToBoolean(v) THEN v ELSE Null
\* v[name] can be read: v is neither null nor undefined
Readable(v) == v.kind \notin {"null", "undefined"}
\* v[name] of a readable value
Get(v, name) == IF v.kind = "object" THEN v[name] ELSE Undefined

AccessTokenA == Str(<<"a","t","-","1">>)
AccessTokenB == Str(<<"a","t","-","2">>)
User == Obj(Undefined, Undefined, Undefined, Undefined)
\* the bodies a session endpoint can answer with, after JSON parsing
SessionBodies ==
    { Null,
      Num(5),
      Obj(AccessTokenA, User, Str(<<"2","0","2","7">>), Undefined),
      Obj(AccessTokenB, Undefined, Undefined, Undefined),
      Obj(Undefined, User, Undefined, Undefined),
      Obj(Str(<<>>), Undefined, Undefined, Undefined) }
\* the value the in-page script returns when the request failed
FetchFailed == Obj(Undefined, Undefined, Undefined, Str(<<"H","T","T","P"," ","4","0","3">>))
InvalidJson == [kind |-> "invalid"]
\* the page call rejects; the page has no <pre> element
Throws == [kind |-> "throws"]
NoPre == [kind |-> "noPre"]
\* JSON.parse of a text that holds body
JSONparse(body) == IF body = InvalidJson THEN Err(SyntaxError) ELSE Ok(body)

NullResult == [accessToken |-> Null, user |-> Null, expires |-> Null]
\* a mutant of OuterCatch: the error is thrown again
OuterCatchRethrows(error) == Err(error)
\* catch (error) { return { accessToken: null, user: null, expires: null } }
OuterCatch(error) == Ok(NullResult)

\* return { accessToken: data.accessToken, user: data.user || null,
\*          expires: data.expires || null }
TokenResult(data) ==
    Ok([accessToken |-> Get(data, "accessToken"),
        user |-> OrNull(Get(data, "user")),
        expires |-> OrNull(Get(data, "expires"))])

\* lines 1115-1133: the text of the page is parsed; every error of the
\* parsing is swallowed
FallbackText(page) ==
    IF page.text = Throws THEN OuterCatch(FetchError)
    ELSE LET parsed == JSONparse(page.text)
         IN IF parsed.ok /\ Readable(parsed.val)
               /\ ToBoolean(Get(parsed.val, "accessToken"))
            THEN TokenResult(parsed.val)
            ELSE Ok(NullResult)

\* lines 1081-1133: set the cookie, navigate to the session endpoint
Fallback(page) ==
    IF ~page.cookieOk THEN OuterCatch(CookieError)
    ELSE IF page.goto = "throws" THEN OuterCatch(GotoError)
    ELSE IF page.goto # "ok" THEN Ok(NullResult)
    ELSE IF page.content = Throws THEN OuterCatch(FetchError)
    ELSE IF page.content = NoPre THEN FallbackText(page)
    ELSE LET parsed == JSONparse(page.content)
         IN IF ~parsed.ok THEN OuterCatch(parsed.val)
            ELSE IF ~Readable(parsed.val) THEN OuterCatch(TypeError)
            ELSE IF ToBoolean(Get(parsed.val, "accessToken"))
                 THEN TokenResult(parsed.val)
                 ELSE FallbackText(page)

\* a mutant of NeedsFallback: a response without access token also falls back
NeedsFallbackWithoutToken(result) ==
    ToBoolean(Get(result, "error")) \/ ~ToBoolean(Get(result, "accessToken"))
\* if (result.error), line 1077
NeedsFallback(result) == ToBoolean(Get(result, "error"))

\* the outcome of the call, and whether the fallback was performed
sessionToAccessToken(sessionToken, page) ==
    IF ~ToBoolean(sessionToken)
    THEN [result |-> Ok(NullResult), fallbacks |-> 0]
    ELSE IF ~page.evaluate.ok
    THEN [result |-> OuterCatch(page.evaluate.val), fallbacks |-> 0]
    ELSE LET result == page.evaluate.val
         IN IF ~Readable(result)
            THEN [result |-> OuterCatch(TypeError), fallbacks |-> 0]
            ELSE IF NeedsFallback(result)
            THEN [result |-> Fallback(page), fallbacks |-> 1]
            ELSE IF ToBoolean(Get(result, "accessToken"))
            THEN [result |-> TokenResult(result), fallbacks |-> 0]
            ELSE [result |-> Ok([accessToken |-> Null,
                                 user |-> OrNull(Get(result, "user")),
                                 expires |-> Null]),
                  fallbacks |-> 0]

SessionTokenArgs == {Null, Str(<<>>), Str(<<"s","t">>)}
SessionPages ==
    {[evaluate |-> e, cookieOk |-> c, goto |-> g, content |-> k, text |-> t] :
        e \in {Err(FetchError), Ok(FetchFailed)} \cup {Ok(b) : b \in SessionBodies},
        c \in BOOLEAN,
        g \in {"throws", "null", "notOk", "ok"},
        k \in {Throws, NoPre, InvalidJson} \cup SessionBodies,
        t \in {Throws, InvalidJson} \cup SessionBodies}

SessionToAccessTokenCall ==
    /\ u_pc = "start"
    /\ u_out' = sessionToAccessToken(u_in.sessionToken, u_in.page)
    /\ u_pc' = "done"
    /\ UNCHANGED u_in

InitExchange ==
    /\ RetryIdle
    /\ ExtractIdle
    /\ WaitIdle
    /\ NoRun
    /\ u_pc = "start"
    /\ u_in \in {[sessionToken |-> st, page |-> pg] :
                    st \in SessionTokenArgs, pg \in SessionPages}
    /\ u_out = Undefined

NextExchange ==
    SessionToAccessTokenCall
    /\ UNCHANGED <<retryVars, extractVars, waitVars, regVars, runVars, mainVars>>

SpecExchange == InitExchange /\ [][NextExchange]_vars

ExchangeCalled == u_in.sessionToken = Str(<<"s","t">>)
InPageFetchFailed ==
    ExchangeCalled /\ u_in.page.evaluate \in {Err(FetchError), Ok(FetchFailed)}
HasToken(body, token) == body.kind = "object" /\ body.accessToken = token
\* the fallback got as far as reading the page of the session endpoint
FallbackReadPage ==
    /\ u_out.fallbacks = 1
    /\ u_in.page.cookieOk
    /\ u_in.page.goto = "ok"
    /\ u_in.page.content # Throws

\* C19 as stated: sessionToAccessToken never raises, and for every failure
\* of the in-page fetch the result object has accessToken null.
C19_EveryFailureGivesNull ==
    u_pc = "done" =>
        /\ u_out.result.ok
        /\ InPageFetchFailed => u_out.result.val.accessToken = Null

\* C19: sessionToAccessToken never raises: it returns a result object whose
\* accessToken is null for an empty session token, a rejected page call, a
\* null or non-object response body, a failed cookie set, a failed or
\* unsuccessful fallback navigation and an unparsable or null fallback body;
\* a non-null accessToken is the one of the response of the in-page fetch
\* or, after a failed in-page fetch, the one of the page the fallback read.
C19_NeverRaises ==
    u_pc = "done" =>
        LET page == u_in.page
            token == u_out.result.val.accessToken
        IN /\ u_out.result.ok
           /\ token \in {Null, AccessTokenA, AccessTokenB}
           /\ token # Null =>
                 \/ /\ u_out.fallbacks = 0
                    /\ page.evaluate.ok
                    /\ HasToken(page.evaluate.val, token)
                 \/ /\ FallbackReadPage
                    /\ page.evaluate = Ok(FetchFailed)
                    /\ HasToken(page.content, token) \/ HasToken(page.text, token)
           /\ ~ExchangeCalled => u_out = [result |-> Ok(NullResult), fallbacks |-> 0]
           /\ (ExchangeCalled /\ page.evaluate \in {Err(FetchError), Ok(Null)}) =>
                 u_out = [result |-> Ok(NullResult), fallbacks |-> 0]
           /\ (ExchangeCalled /\ page.evaluate = Ok(Num(5))) => token = Null
           /\ (ExchangeCalled /\ page.evaluate = Ok(FetchFailed)) =>
                 /\ u_out.fallbacks = 1
                 /\ (~page.cookieOk \/ page.goto # "ok"
                       \/ page.content \in {Throws, InvalidJson, Null}) =>
                       u_out.result = Ok(NullResult)
C19_Witness ==
    /\ u_pc = "done"
    /\ u_in.page.evaluate = Ok(FetchFailed)
    /\ u_in.page.cookieOk
    /\ u_in.page.goto = "ok"
    /\ u_in.page.content = Null
    /\ u_in.page.text = Obj(AccessTokenA, User, Str(<<"2","0","2","7">>), Undefined)
    /\ u_in.sessionToken = Str(<<"s","t">>)
    /\ u_out = [result |-> Ok(NullResult), fallbacks |-> 1]

(***************************************************************************)
(* Claims about the token harvest of registerOne, checked under Spec.      *)
(***************************************************************************)
\* register() returned true to the registerOne call under way
RegisterSucceeded ==
    /\ m_pc = "run"
    /\ r_pc \in {"harvest", "exchange", "save", "close_tm", "close_reg", "return"}
    /\ g_result = Ok(TRUE)
AfterSave == r_pc \in {"close_tm", "close_reg", "return"}
StoredFor(email) == {i \in DOMAIN accounts : accounts[i].email = email}
RunRecord ==
    [email |-> r_email, status |-> StatusSuccess,
     sessionToken |-> r_sessionToken, accessToken |-> r_accessToken]

\* C18 as stated: once register() returned success and the finally block
\* has saved, the account file holds exactly one record of the account.
C18_PersistedExactlyOnce ==
    (RegisterSucceeded /\ AfterSave) => Cardinality(StoredFor(r_email)) = 1

\* C18: if register() returns success then, for every outcome of
\* getSessionToken and sessionToAccessToken, the status of the run stays
\* success, saveAccount is called exactly once with the record of the run
\* (the file gains that one record, or nothing when the write failed), the
\* file never holds the account twice, and the run is counted a success.
C18_HarvestNeverFailsTheRun ==
    /\ [](RegisterSucceeded =>
             /\ r_status = StatusSuccess
             /\ r_email # Null
             /\ r_saves = (IF AfterSave THEN 1 ELSE 0)
             /\ Cardinality(StoredFor(r_email)) <= r_saves
             /\ r_pc = "save" => r_harvested
             /\ r_accessToken # Null => r_sessionToken # Null)
    /\ [][/\ (RegisterSucceeded /\ r_pc = "save") =>
               accounts' \in {accounts, Append(accounts, RunRecord)}
          /\ (RegisterSucceeded /\ r_pc = "return") =>
               /\ successCount' \in {successCount, successCount + 1}
               /\ failCount' = failCount
               /\ r_pc' # r_pc => successCount' = successCount + 1]_vars
\* C18 witness: registration succeeded, no session token was harvested, and
\* the run returns with the account stored once
C18_Witness ==
    /\ RegisterSucceeded
    /\ r_pc = "return"
    /\ r_harvested
    /\ r_sessionToken = Null
    /\ r_saves = 1
    /\ Cardinality(StoredFor(r_email)) = 1
    /\ accounts[Len(accounts)] = RunRecord

(***************************************************************************)
(* Claims about failed runs, checked under Spec.                           *)
(***************************************************************************)
InFinally == r_pc \in {"save", "close_tm", "close_reg", "return"}
\* the registerOne call under way has failed
RunFailed == m_pc = "run" /\ InFinally /\ r_status = StatusFailed
\* every run so far has failed
OnlyFailedRuns == failCount > 0 /\ successCount = 0
\* a page close of the finally block raised
PageCloseError ==
    \/ r_pc \in {"close_reg", "return"} /\ "tempMail" \in r_closes /\ r_tmPage = "open"
    \/ r_pc = "return" /\ "register" \in r_closes /\ r_regPage = "open"

\* C20 as stated: after a failed run the orchestrator, unless a stop was
\* requested, goes on to the next run: it does not leave the loop.
C20_NextRunAlwaysStarts ==
    [][(OnlyFailedRuns /\ m_pc \in {"boundary", "reconnect"}
          /\ isRunning /\ isRunning') => m_pc' # "finally"]_vars

\* C20: a failure inside a run never escapes registerOne: a run whose
\* register() did not return true reaches the finally block with status
\* failed, stores nothing, keeps that status through the page closes, returns
\* false, and main increments failCount only. A page-close error of the
\* finally block leaves the status as it is. After the run main goes back to
\* the loop test when a stop was requested; otherwise it sleeps and starts
\* the next run, and it leaves the loop only when the browser was lost: in
\* debug mode after 5 failed reconnections, else after a failed relaunch.
C20_FailureStaysInsideTheRun ==
    /\ [](/\ (m_pc = "run" /\ InFinally /\ g_result # Ok(TRUE)) => RunFailed
          /\ RunFailed => r_saves = 0 /\ StoredFor(r_email) = {}
          /\ (m_pc = "run" /\ g_pc = "raised") => r_pc = "register"
          /\ (m_pc = "run" /\ g_failedAt # "none") => r_status = StatusFailed
          /\ (m_pc = "run" /\ g_banner /\ r_pc # "register") => RunFailed
          /\ (m_pc = "finally" /\ isRunning /\ debugMode) => m_i = ConnectAttempts)
    /\ [][/\ (m_pc = "run" /\ InFinally /\ r_pc' # "idle") =>
               r_status' = r_status /\ m_pc' = "run"
          /\ (RunFailed /\ r_pc' = "idle") =>
               /\ r_pc = "return"
               /\ failCount' = failCount + 1
               /\ successCount' = successCount
               /\ m_index' = m_index + 1
               /\ accounts' = accounts
               /\ m_pc' = "boundary"
          /\ (m_pc = "boundary" /\ m_pc' # m_pc) =>
               IF ~isRunning THEN m_pc' = "loop"
               ELSE \/ m_pc' = "sleep5"
                    \/ debugMode /\ m_pc' = "reconnect"
                    \/ ~debugMode /\ m_pc' = "finally"
          /\ (m_pc = "reconnect" /\ m_pc' # m_pc) =>
               \/ m_pc' = "sleep5"
               \/ m_pc' = "finally" /\ m_i = ConnectAttempts
          /\ (m_pc = "sleep5" /\ m_pc' # m_pc) => m_pc' = "loop"
          /\ (m_pc = "loop" /\ m_pc' # m_pc) =>
               IF isRunning THEN m_pc' = "run" /\ r_pc' = "tm_init"
               ELSE m_pc' = "finally"]_vars
\* C20 witness: the first run failed and was counted, no stop was requested,
\* and the second run has started
C20_Witness ==
    /\ m_pc = "run"
    /\ r_pc = "tm_init"
    /\ m_index = 1
    /\ failCount = 1
    /\ successCount = 0
    /\ isRunning
    /\ accounts = <<>>
\* a failed run returns after a page close of its finally block raised
C20_PageCloseWitness == RunFailed /\ r_pc = "return" /\ PageCloseError

(***************************************************************************)
(* Claims about the stop signal, checked under Spec.                       *)
(***************************************************************************)

\* a stop signal arrived while the run under way was in progress
StoppedDuringRun == m_pc = "run" /\ ~isRunning

PagesOpen == {p \in {"tempMail", "register"} :
                 IF p = "tempMail" THEN r_tmPage = "open" ELSE r_regPage = "open"}
RunUnderWay == r_pc # "idle"

\* C22: runs never overlap. A run is under way exactly while main awaits
\* registerOne; index counts the runs that returned; register() runs only
\* inside the run under way; a run starts (its first action is opening the
\* webmail page) only from the loop test, when no run is under way; a run
\* ends only by returning, after it saved (when successful) and after it
\* tried to close each page it had opened.
C22_OneRunAtATime ==
    /\ [](/\ RunUnderWay <=> m_pc = "run"
          /\ m_index = successCount + failCount
          /\ g_pc # "idle" => r_pc = "register"
          /\ wr_pc # "idle" => r_pc = "register"
          /\ (AfterSave /\ r_status = StatusSuccess) => r_saves = 1
          /\ r_pc = "close_reg" => (r_tmPage = "open" => "tempMail" \in r_closes)
          /\ r_pc = "return" => PagesOpen \subseteq r_closes
          /\ \A i \in DOMAIN accounts :
                \/ accounts[i].email.run < m_index
                \/ accounts[i].email.run = m_index /\ AfterSave)
    /\ [][/\ (~RunUnderWay /\ RunUnderWay') =>
               /\ m_pc = "loop"
               /\ r_pc' = "tm_init"
               /\ r_tmPage' = "null" /\ r_regPage' = "null"
          /\ (r_pc # "tm_init" /\ r_pc' = "tm_init") => ~RunUnderWay
          /\ (RunUnderWay /\ ~RunUnderWay') =>
               /\ r_pc = "return"
               /\ m_index' = m_index + 1
          /\ (r_pc \in {"close_tm", "close_reg"} /\ r_pc' # r_pc) =>
               /\ PagesOpen \subseteq r_closes'
                    \cup (IF r_pc = "close_tm" THEN {"register"} ELSE {})
               /\ r_pc' = (IF r_pc = "close_tm" THEN "close_reg" ELSE "return")]_vars
\* C22 witness: the second run opens the webmail page after the first run
\* succeeded, stored its account and returned
C22_Witness ==
    /\ m_index = 1
    /\ successCount = 1
    /\ r_pc = "get_email"
    /\ r_tmPage = "open"
    /\ Len(accounts) = 1
    /\ accounts[1].email = Email(0)

(***************************************************************************)
(* Claims about the lost browser, checked under Spec.                      *)
(***************************************************************************)
\* main has left the loop although no stop was requested and a run was made
LeftLoopUnstopped == m_pc = "finally" /\ isRunning /\ m_index > 0

\* C23: in every launch mode, main gives up a browser found disconnected at
\* a run boundary only after 5 attempts to restore it have failed.
C23_FiveAttemptsInEveryMode ==
    LeftLoopUnstopped => m_i = ConnectAttempts

(***************************************************************************)
(* Claims about what a run persists, checked under Spec.                   *)
(***************************************************************************)
\* C24: saveAccount is called at most once per run, only in the finally
\* block of a run whose register() returned true and whose email is set; a
\* run that failed harvests no token and stores nothing, and every stored
\* record is the record of a run that succeeded.
C24_SavedOnlyOnSuccess ==
    /\ r_saves \in {0, 1}
    /\ r_saves = 1 =>
          /\ AfterSave
          /\ g_result = Ok(TRUE)
          /\ r_status = StatusSuccess
          /\ r_email = Email(m_index)
    /\ (RunUnderWay /\ g_result # Ok(TRUE)) =>
          /\ r_saves = 0
          /\ ~r_harvested
          /\ r_sessionToken = Null /\ r_accessToken = Null
          /\ StoredFor(Email(m_index)) = {}
    /\ \A i \in DOMAIN accounts : accounts[i].status = StatusSuccess
    /\ Len(accounts) <= successCount + r_saves
\* C24 witness: the first run failed and stored nothing, the second run
\* succeeded and has called saveAccount once
C24_Witness ==
    /\ failCount = 1
    /\ m_index = 1
    /\ r_saves = 1
    /\ r_pc = "close_tm"
    /\ accounts = <<RunRecord>>

(***************************************************************************)
(* saveAccount, utils/excel.js 26-80. The file accounts.xlsx is absent or  *)
(* holds one sheet: a header row and rows of cells, "" being a blank cell. *)
(* A JavaScript object is the sequence of its <<key, value>> properties.   *)
(* The columns are named here email, password, status, sessionToken and    *)
(* createdAt.                                                              *)
(***************************************************************************)
MaxStored == 2
SaveRetries == 3
Absent == [kind |-> "absent"]
Sheet(header, rows) == [kind |-> "sheet", header |-> header, rows |-> rows]

HasKey(obj, key) == \E i \in DOMAIN obj : obj[i][1] = key
ValueOf(obj, key) ==
    IF HasKey(obj, key)
    THEN obj[CHOOSE i \in DOMAIN obj : obj[i][1] = key][2]
    ELSE ""

\* XLSX.utils.sheet_to_json: one object per row that is not blank, with a
\* property per column whose cell holds a value; whether a cell holding the
\* empty string gives a property is left open (keepsEmpty)
RECURSIVE RowObjectFrom(_, _, _, _)
RowObjectFrom(header, row, c, keepsEmpty) ==
    IF c > Len(header) THEN <<>>
    ELSE (IF row[c] # "" \/ keepsEmpty THEN <<<<header[c], row[c]>>>> ELSE <<>>)
         \o RowObjectFrom(header, row, c + 1, keepsEmpty)
IsBlankRow(row) == \A c \in DOMAIN row : row[c] = ""
RECURSIVE RowObjects(_, _, _)
RowObjects(sheet, r, keepsEmpty) ==
    IF r > Len(sheet.rows) THEN <<>>
    ELSE (IF IsBlankRow(sheet.rows[r]) THEN <<>>
          ELSE <<RowObjectFrom(sheet.header, sheet.rows[r], 1, keepsEmpty)>>)
         \o RowObjects(sheet, r + 1, keepsEmpty)
sheet_to_json(sheet, keepsEmpty) == RowObjects(sheet, 1, keepsEmpty)

\* XLSX.utils.json_to_sheet: the header holds the keys of the objects in
\* the order of their first appearance; a missing property is a blank cell
RECURSIVE AddKeys(_, _, _)
AddKeys(header, obj, i) ==
    IF i > Len(obj) THEN header
    ELSE AddKeys(IF \E c \in DOMAIN header : header[c] = obj[i][1]
                 THEN header ELSE Append(header, obj[i][1]),
                 obj, i + 1)
RECURSIVE HeaderFrom(_, _, _)
HeaderFrom(header, data, r) ==
    IF r > Len(data) THEN header
    ELSE HeaderFrom(AddKeys(header, data[r], 1), data, r + 1)
json_to_sheet(data) ==
    LET header == HeaderFrom(<<>>, data, 1)
    IN Sheet(header,
             [r \in 1..Len(data) |->
                 [c \in 1..Len(header) |-> ValueOf(data[r], header[c])]])

\* account.sessionToken || ''
OrEmpty(v) == IF v = "null" THEN "" ELSE v
\* the row object of lines 43-49
AccountRow(account) ==
    << <<"email", account.email>>,
       <<"password", account.password>>,
       <<"status", account.status>>,
       <<"sessionToken", OrEmpty(account.sessionToken)>>,
       <<"createdAt", account.createdAt>> >>

\* a mutant of PushRecord: an account already in the list is replaced
PushUnlessStored(data, account) ==
    IF \E r \in DOMAIN data : ValueOf(data[r], "email") = account.email
    THEN [r \in DOMAIN data |->
             IF ValueOf(data[r], "email") = account.email
             THEN AccountRow(account) ELSE data[r]]
    ELSE Append(data, AccountRow(account))
\* data.push({...})
PushRecord(data, account) == Append(data, AccountRow(account))

\* one pass of the for loop: the file is read if it exists, the account is
\* pushed, the sheet is built and written. attempts[i + 1] says how pass i
\* ends: "ok", "readThrows" (readFileSync or XLSX.read) or "writeThrows"
\* (XLSX.writeFile, the file being left as it was)
RECURSIVE SaveAccountFrom(_, _, _, _, _)
SaveAccountFrom(account, file, attempts, keepsEmpty, i) ==
    IF i >= SaveRetries THEN [returned |-> "undefined", file |-> file]
    ELSE LET failed ==
                 \/ attempts[i + 1] = "writeThrows"
                 \/ attempts[i + 1] = "readThrows" /\ file # Absent
             data == IF file = Absent THEN <<>>
                     ELSE sheet_to_json(file, keepsEmpty)
         IN IF ~failed
            THEN [returned |-> "true",
                  file |-> json_to_sheet(PushRecord(data, account))]
            ELSE IF i < SaveRetries - 1
            THEN SaveAccountFrom(account, file, attempts, keepsEmpty, i + 1)
            ELSE [returned |-> "false", file |-> file]
saveAccount(account, file, attempts, keepsEmpty) ==
    SaveAccountFrom(account, file, attempts, keepsEmpty, 0)

SaveAccounts ==
    {[email |-> e, password |-> "pw", status |-> StatusSuccess,
      sessionToken |-> t, createdAt |-> "2026"] :
        e \in {"a@m.co", "b@m.co"}, t \in {"null", "st"}}
RECURSIVE StoredLists(_)
StoredLists(n) ==
    IF n = 0 THEN {<<>>}
    ELSE StoredLists(n - 1)
         \cup {Append(l, a) : l \in {x \in StoredLists(n - 1) : Len(x) = n - 1},
                              a \in SaveAccounts}
\* the files the program can have written before, and no file
RECURSIVE FileOf(_, _, _)
FileOf(list, keepsEmpty, k) ==
    IF k > Len(list) THEN Absent
    ELSE saveAccount(list[Len(list) - k + 1],
                     FileOf(list, keepsEmpty, k + 1),
                     <<"ok", "ok", "ok">>, keepsEmpty).file
AttemptLists ==
    {<<a, b, c>> : a \in {"ok", "readThrows", "writeThrows"},
                   b \in {"ok", "writeThrows"}, c \in {"ok", "writeThrows"}}

\* saveAccount(account) is called, and then called again with the same account
SaveAccountCall ==
    /\ u_pc \in {"start", "done"}
    /\ LET file == IF u_pc = "start" THEN u_in.file ELSE u_out[1].file
           attempts == IF u_pc = "start" THEN u_in.first ELSE u_in.second
       IN u_out' = (IF u_pc = "start" THEN <<>> ELSE u_out)
                   \o <<saveAccount(u_in.account, file, attempts, u_in.keepsEmpty)>>
    /\ u_pc' = IF u_pc = "start" THEN "done" ELSE "again"
    /\ UNCHANGED u_in

InitSave ==
    /\ RetryIdle
    /\ ExtractIdle
    /\ WaitIdle
    /\ NoRun
    /\ u_pc = "start"
    /\ u_in \in {[file |-> FileOf(l, k, 1), account |-> a, first |-> f,
                  second |-> g, keepsEmpty |-> k] :
                    l \in StoredLists(MaxStored), a \in SaveAccounts,
                    f \in AttemptLists, g \in AttemptLists, k \in BOOLEAN}
    /\ u_out = Undefined

NextSave ==
    SaveAccountCall
    /\ UNCHANGED <<retryVars, extractVars, waitVars, regVars, runVars, mainVars>>

SpecSave == InitSave /\ [][NextSave]_vars

(***************************************************************************)
(* Claims about saveAccount, checked under SpecSave.                       *)
(***************************************************************************)
\* the records a file holds: per row, the cells that hold a value
RecordsOf(file) ==
    IF file = Absent THEN <<>>
    ELSE [r \in DOMAIN file.rows |->
             {<<file.header[c], file.rows[r][c]>> :
                 c \in {k \in DOMAIN file.header : file.rows[r][k] # ""}}]
RecordOf(account) ==
    {<<"email", account.email>>, <<"password", account.password>>,
     <<"status", account.status>>, <<"createdAt", account.createdAt>>}
    \cup (IF account.sessionToken = "null" THEN {}
          ELSE {<<"sessionToken", account.sessionToken>>})
FileBefore(k) == IF k = 1 THEN u_in.file ELSE u_out[k - 1].file

\* C25: a call of saveAccount that returns true leaves the records stored
\* before it as they were, in their order, and appends the record of the
\* account, once; a call that returns false leaves the file as it was; two
\* successful calls with the same account store its record twice.
C25_AppendsExactlyOne ==
    u_pc \in {"done", "again"} =>
        /\ \A k \in DOMAIN u_out :
              /\ u_out[k].returned \in {"true", "false"}
              /\ u_out[k].returned = "true" =>
                    RecordsOf(u_out[k].file) =
                        Append(RecordsOf(FileBefore(k)), RecordOf(u_in.account))
              /\ u_out[k].returned = "false" => u_out[k].file = FileBefore(k)
        /\ (u_pc = "again" /\ u_out[1].returned = "true"
               /\ u_out[2].returned = "true") =>
              RecordsOf(u_out[2].file) =
                  RecordsOf(u_in.file)
                  \o <<RecordOf(u_in.account), RecordOf(u_in.account)>>
\* C25 witness: the file held two accounts, the second of them the account
\* that is saved twice; the first call succeeds on its third attempt
C25_Witness ==
    /\ u_pc = "again"
    /\ Len(RecordsOf(u_in.file)) = 2
    /\ RecordsOf(u_in.file)[2] = RecordOf(u_in.account)
    /\ RecordsOf(u_in.file)[1] # RecordOf(u_in.account)
    /\ u_in.first = <<"readThrows", "writeThrows", "ok">>
    /\ u_out[1].returned = "true"
    /\ u_out[2].returned = "true"
    /\ Len(RecordsOf(u_out[2].file)) = 4

(***************************************************************************)
(* Claims about diagnostic screenshots, checked under SpecEmail.           *)
(***************************************************************************)
\* the outcomes of getEmailAddress on the page when every capture succeeds
OutcomesWithCaptures ==
    {getEmailAddress(u_in.inputs, u_in.bodyText, evaluateOk, TRUE, TRUE) :
        evaluateOk \in BOOLEAN}

\* C26: a screenshot that cannot be taken changes nothing: getEmailAddress
\* returns the address, or raises the error, that it returns or raises when
\* the captures succeed.
C26_CaptureFailureChangesNothing ==
    u_pc = "done" => u_out \in OutcomesWithCaptures

(***************************************************************************)
(* The input step of the text-entry handlers, register.js 334-335,         *)
(* 367-368, 394-395, 436-437 and 620-624. A field is its text and its      *)
(* selection: the characters after position from up to position to; an     *)
(* empty selection is the caret.                                           *)
(***************************************************************************)
MaxFieldLen == 2
TextStages == {"EmailEntry", "PasswordEntry", "CodeEntry", "ProfileEntry",
               "UsernameEntry"}
Field(text, from, to) == [text |-> text, from |-> from, to |-> to]
\* element.click({ clickCount: 3 }): the whole line is selected
clickSelectAll(field) == Field(field.text, 0, Len(field.text))
\* element.click(): the caret is put where the click falls
click(field, caret) == Field(field.text, caret, caret)
\* page.keyboard.press('Backspace')
pressBackspace(field) ==
    LET from == IF field.from < field.to THEN field.from
                ELSE IF field.from > 0 THEN field.from - 1 ELSE 0
    IN Field(SubSeq(field.text, 1, from)
                \o SubSeq(field.text, field.to + 1, Len(field.text)),
             from, from)
\* element.type(text): the first key replaces the selection, the others
\* follow it
type(field, text) ==
    Field(SubSeq(field.text, 1, field.from) \o text
             \o SubSeq(field.text, field.to + 1, Len(field.text)),
          field.from + Len(text), field.from + Len(text))

\* the input step of the handler of the stage
InputStep(stage, field, value, caret) ==
    CASE stage \in {"EmailEntry", "CodeEntry", "ProfileEntry"} ->
            type(clickSelectAll(field), value)
      [] stage = "PasswordEntry" ->
            type(click(field, caret), value)
      [] stage = "UsernameEntry" ->
            type(pressBackspace(clickSelectAll(field)), value)

FieldChars == {"a", "b"}
RECURSIVE FieldTexts(_)
FieldTexts(n) ==
    IF n = 0 THEN {<<>>}
    ELSE FieldTexts(n - 1)
         \cup {Append(t, c) : t \in FieldTexts(n - 1), c \in FieldChars}

InputStepCall ==
    /\ u_pc = "start"
    /\ u_out' = InputStep(u_in.stage, Field(u_in.before, 0, 0), u_in.value,
                          u_in.caret)
    /\ u_pc' = "done"
    /\ UNCHANGED u_in

InitInput ==
    /\ RetryIdle
    /\ ExtractIdle
    /\ WaitIdle
    /\ NoRun
    /\ u_pc = "start"
    /\ u_in \in {[stage |-> st, before |-> b, value |-> v, caret |-> c] :
                    st \in TextStages, b \in FieldTexts(MaxFieldLen),
                    v \in FieldTexts(MaxFieldLen) \ {<<>>},
                    c \in 0..MaxFieldLen}
    /\ u_in.caret <= Len(u_in.before)
    /\ u_out = Undefined

NextInput ==
    InputStepCall
    /\ UNCHANGED <<retryVars, extractVars, waitVars, regVars, runVars, mainVars>>

SpecInput == InitInput /\ [][NextInput]_vars

\* C27: after the input step of every text-entry stage the field holds the
\* intended value and nothing else, whatever it held before.
C27_FieldHoldsIntendedValue ==
    u_pc = "done" => u_out.text = u_in.value

(***************************************************************************)
(* Claims about the verification-code provider, checked under Spec.        *)
(***************************************************************************)
TimesEntered(stage) ==
    Cardinality({k \in DOMAIN g_entered : g_entered[k] = stage})
LastEntered == IF g_entered = <<>> THEN "none" ELSE g_entered[Len(g_entered)]

\* C28: in a run the provider (waitForVerificationCode, through the
\* callback) is called at most once, after PasswordEntry has finished and
\* before CodeEntry is entered; the inbox is polled only during that call, so
\* the attempts of CodeEntry use the code it returned; when it raises, that
\* was the last stage entered, register() raises and the run fails.
C28_ProviderCalledOnce ==
    /\ TimesEntered("AwaitCode") <= 1
    /\ InSeq("AwaitCode", g_entered) => "PasswordEntry" \in g_finished
    /\ w_pc # "idle" =>
          /\ g_pc = "AwaitCode"
          /\ LastEntered = "AwaitCode"
          /\ wr_pc = "idle"
          /\ g_code = Undefined
    /\ g_code # Undefined <=> "AwaitCode" \in g_finished
    /\ InSeq("CodeEntry", g_entered) =>
          /\ "AwaitCode" \in g_finished
          /\ Truthy(g_code)
          /\ w_pc = "idle" /\ w_polls = 0
    /\ g_failedAt = "AwaitCode" =>
          /\ LastEntered = "AwaitCode"
          /\ "AwaitCode" \notin g_finished
          /\ g_pc \in {"raised", "idle"}
          /\ ~g_result.ok
          /\ r_status = StatusFailed
          /\ r_saves = 0
\* C28 witness: the second attempt of CodeEntry is under way with the code
\* the provider returned, and no poll is going on
C28_Witness ==
    /\ g_pc = "CodeEntry"
    /\ wr_pc = "call"
    /\ Len(wr_trace) = 1
    /\ ~wr_trace[1].ok
    /\ g_code = Str(Code482913)
    /\ w_pc = "idle"
\* the provider raised and the run is failing
C28_TimeoutWitness ==
    /\ g_failedAt = "AwaitCode"
    /\ g_result = Err(TimeoutError)
    /\ r_pc = "return"

(***************************************************************************)
(* Claims about the polls of waitForVerificationCode, checked under        *)
(* SpecWait.                                                               *)
(***************************************************************************)
Extracting == w_pc \in {"extract1", "extract2"}
CodeOn(page) == extractVerificationCode(page)

\* C29: a poll that reported a hit and opened a message but extracts no
\* code does not end the wait: the second extraction of the poll follows,
\* then the sleep of 5 s and the loop test, which starts the next poll while
\* the deadline has not passed. The function returns from the first
\* extraction that gives a code, with that code and without another
\* inspection of the inbox, and it raises only after the deadline.
C29_PollingGoesOn ==
    /\ [](/\ w_pc = "returned" =>
               /\ w_result = Ok(CodeOn(w_page))
               /\ Truthy(CodeOn(w_page))
               /\ w_polls >= 1
          /\ w_pc = "thrown" => ~WaitLoopTest(w_now, w_timeout)
          /\ w_pc = "extract1" => w_hit
          /\ w_pc = "timeout" => w_result = Undefined
          /\ w_pc = "thrown" => ~w_result.ok)
    /\ [][/\ (Extracting /\ w_pc' # w_pc) =>
               /\ w_pc' \in {"returned", "sleep5"}
                            \cup (IF w_pc = "extract1" THEN {"extract2"} ELSE {})
               /\ w_polls' = w_polls
               /\ w_pc' = "returned" => Truthy(CodeOn(w_page'))
               /\ (w_pc' = "extract2" \/ w_page' # w_page) =>
                     (w_pc' = "returned" <=> Truthy(CodeOn(w_page')))
          /\ (w_pc = "sleep5" /\ w_pc' # w_pc) => w_pc' = "test"
          /\ (w_pc = "test" /\ w_pc' # w_pc) =>
               w_pc' = (IF w_now < w_timeout THEN "sleep3" ELSE "timeout")
          /\ w_pc = "returned" => UNCHANGED waitVars]_vars
\* C29 witness: the first poll reported a hit and extracted nothing, the
\* wait went on, and the second poll returned a code
C29_Witness ==
    /\ w_pc = "returned"
    /\ w_polls = 2
    /\ w_anyHit
    /\ ~w_hit
    /\ w_result = Ok(Str(Code482913))

\* C30: waitForVerificationCode returns a code only in a poll whose
\* inspection of the inbox reported a hit.
C30_CodeOnlyFromAHit ==
    w_pc = "returned" => w_hit

(***************************************************************************)
(* OpenAIRegister.getSessionToken, register.js 854-1035: the cookies. A    *)
(* cookie is its name, its domain and its value; the value is named here   *)
(* by the domain that set it. The storage reads are modelled by whether    *)
(* they raise; the refresh token and the storage data are left out.        *)
(***************************************************************************)
MaxCookies == 2
SessionTokenName == <<"_","_","S","e","c","u","r","e","-","n","e","x","t","-","a","u","t","h",".","s","e","s","s","i","o","n","-","t","o","k","e","n">>
relevantDomains ==
    << <<".","o","p","e","n","a","i",".","c","o","m">>,
       <<".","s","o","r","a",".","c","o","m">>,
       <<".","c","h","a","t","g","p","t",".","c","o","m">>,
       <<"a","u","t","h",".","o","p","e","n","a","i",".","c","o","m">> >>
relevantNames ==
    { <<"_","_","S","e","c","u","r","e","-","n","e","x","t","-","a","u","t","h",".","s","e","s","s","i","o","n","-","t","o","k","e","n">>,
      <<"_","_","H","o","s","t","-","n","e","x","t","-","a","u","t","h",".","c","s","r","f","-","t","o","k","e","n">>,
      <<"_","_","c","f","_","b","m">>,
      <<"_","c","f","u","v","i","d">>,
      <<"c","f","_","c","l","e","a","r","a","n","c","e">>,
      <<"o","a","i","-","d","i","d">>,
      <<"o","a","i","-","d","m","-","t","g","t","-","c","-","2","4","0","3","2","9">>,
      <<"_","_","S","e","c","u","r","e","-","n","e","x","t","-","a","u","t","h",".","c","a","l","l","b","a","c","k","-","u","r","l">>,
      <<"a","j","s","_","a","n","o","n","y","m","o","u","s","_","i","d">> }

\* String.prototype.replace('.', ''): the first dot is removed
ReplaceFirstDot(text) ==
    LET dots == {k \in DOMAIN text : text[k] = "."}
    IN IF dots = {} THEN text
       ELSE LET k == CHOOSE x \in dots : \A y \in dots : x <= y
            IN SubSeq(text, 1, k - 1) \o SubSeq(text, k + 1, Len(text))
\* relevantDomains.some(domain =>
\*   cookie.domain.includes(domain.replace('.', '')) || cookie.domain === domain)
isRelevantDomain(domain) ==
    \E k \in DOMAIN relevantDomains :
        \/ includes(domain, ReplaceFirstDot(relevantDomains[k]))
        \/ domain = relevantDomains[k]
\* relevantNames.includes(cookie.name) || cookie.name.includes('session')
\*   || cookie.name.includes('token')
isRelevantName(name) ==
    \/ name \in relevantNames
    \/ includes(name, <<"s","e","s","s","i","o","n">>)
    \/ includes(name, <<"t","o","k","e","n">>)

\* for (const cookie of cookies) if (...) authCookies[cookie.name] = {...}
RECURSIVE AuthCookiesFrom(_, _, _)
AuthCookiesFrom(cookies, k, authCookies) ==
    IF k > Len(cookies) THEN authCookies
    ELSE LET cookie == cookies[k]
         IN AuthCookiesFrom(cookies, k + 1,
               IF isRelevantDomain(cookie.domain) /\ isRelevantName(cookie.name)
               THEN [n \in DOMAIN authCookies \cup {cookie.name} |->
                        IF n = cookie.name THEN cookie ELSE authCookies[n]]
               ELSE authCookies)
\* cookies.find(c => c.name === '__Secure-next-auth.session-token')
FindSessionToken(cookies) ==
    LET found == {k \in DOMAIN cookies : cookies[k].name = SessionTokenName}
    IN IF found = {} THEN Undefined
       ELSE cookies[CHOOSE k \in found : \A j \in found : k <= j]

EmptyHarvest == [sessionToken |-> Null, allAuthCookies |-> <<>>, rawCookies |-> <<>>]
\* the result object; every error is caught and gives the empty result
getSessionToken(cookies, cookiesOk, storageOk) ==
    IF ~cookiesOk \/ ~storageOk THEN EmptyHarvest
    ELSE LET sessionToken == FindSessionToken(cookies)
         IN [sessionToken |-> IF sessionToken # Undefined
                              THEN Str(sessionToken.value) ELSE Null,
             allAuthCookies |-> AuthCookiesFrom(cookies, 1, <<>>),
             rawCookies |-> SelectSeq(cookies,
                               LAMBDA c : isRelevantDomain(c.domain))]

CookieNames ==
    { SessionTokenName, <<"o","a","i","-","d","i","d">>, <<"x","t","o","k","e","n">>, <<"s","i","d">> }
CookieDomains ==
    { <<".","c","h","a","t","g","p","t",".","c","o","m">>,
      <<"a","u","t","h",".","o","p","e","n","a","i",".","c","o","m">>,
      <<"s","o","r","a",".","c","h","a","t","g","p","t",".","c","o","m">>,
      <<".","s","o","r","a",".","c","o","m">>,
      <<"e","v","i","l",".","o","r","g">>,
      <<"n","o","t","o","p","e","n","a","i",".","c","o","m">> }
CookiePool == {[name |-> n, domain |-> d, value |-> d] :
                  n \in CookieNames, d \in CookieDomains}
RECURSIVE CookieLists(_)
CookieLists(n) ==
    IF n = 0 THEN {<<>>}
    ELSE CookieLists(n - 1)
         \cup {Append(l, c) : l \in CookieLists(n - 1), c \in CookiePool}

GetSessionTokenCall ==
    /\ u_pc = "start"
    /\ u_out' = getSessionToken(u_in.cookies, u_in.cookiesOk, u_in.storageOk)
    /\ u_pc' = "done"
    /\ UNCHANGED u_in

InitHarvest ==
    /\ RetryIdle
    /\ ExtractIdle
    /\ WaitIdle
    /\ NoRun
    /\ u_pc = "start"
    /\ u_in \in {[cookies |-> l, cookiesOk |-> c, storageOk |-> g] :
                    l \in CookieLists(MaxCookies), c \in BOOLEAN, g \in BOOLEAN}
    /\ u_out = Undefined

NextHarvest ==
    GetSessionTokenCall
    /\ UNCHANGED <<retryVars, extractVars, waitVars, regVars, runVars, mainVars>>

SpecHarvest == InitHarvest /\ [][NextHarvest]_vars

\* the domain is one of the known domains or a subdomain of one
KnownDomains ==
    { <<"o","p","e","n","a","i",".","c","o","m">>, <<"s","o","r","a",".","c","o","m">>, <<"c","h","a","t","g","p","t",".","c","o","m">>, <<"a","u","t","h",".","o","p","e","n","a","i",".","c","o","m">> }
OnKnownDomain(domain) ==
    \E d \in KnownDomains : domain = d \/ EndsWith(domain, <<".">> \o d)

\* C31: every cookie kept in allAuthCookies is scoped to a known domain or
\* a subdomain of one and has a name of the allowlist or a name containing
\* "session" or "token", and the session token returned is the value of a
\* cookie scoped to such a domain.
C31_CookiesOfKnownDomains ==
    u_pc = "done" =>
        /\ \A n \in DOMAIN u_out.allAuthCookies :
              /\ OnKnownDomain(u_out.allAuthCookies[n].domain)
              /\ isRelevantName(u_out.allAuthCookies[n].name)
        /\ u_out.sessionToken # Null =>
              \E d \in CookieDomains :
                  OnKnownDomain(d) /\ u_out.sessionToken = Str(d)

(***************************************************************************)
(* C32: when sessionToAccessToken falls back to the navigation.            *)
(***************************************************************************)
\* the in-page script returned an object that reports an error
FetchReportedError ==
    /\ ExchangeCalled
    /\ u_in.page.evaluate.ok
    /\ u_in.page.evaluate.val.kind = "object"
    /\ u_in.page.evaluate.val.error \notin {Undefined, Null, Str(<<>>)}
\* the in-page script returned the parsed body of a response
FetchReturnedResponse ==
    /\ ExchangeCalled
    /\ u_in.page.evaluate.ok
    /\ u_in.page.evaluate.val \in SessionBodies

C32_NoTokenWitness ==
    /\ u_pc = "done"
    /\ FetchReturnedResponse
    /\ u_in.page.evaluate.val = Obj(Undefined, User, Undefined, Undefined)
    /\ u_out.fallbacks = 0

(***************************************************************************)
(* C33: the page closes at the end of a run.                               *)
(***************************************************************************)
\* the run got far enough to have opened the page, or the page is open
WebmailPageOpened == r_tmPage = "open" \/ r_email # Null
RegistrationPageOpened == r_regPage = "open" \/ g_entered # <<>>
\* the close of the webmail page raised
WebmailCloseFailed == "tempMail" \in r_closes /\ r_tmPage = "open"

\* C33: when registerOne returns, whatever its outcome, close has been
\* attempted on the webmail page and on the registration page if they were
\* opened; the registration page's close is attempted also when the webmail
\* page's close raised, and the status returned is success exactly when
\* register() returned true, whatever the closes did. Closes are attempted
\* only at the end of the run.
C33_BothClosesAttempted ==
    /\ r_pc \in {"close_reg", "return"} =>
          (WebmailPageOpened => "tempMail" \in r_closes)
    /\ r_pc = "return" =>
          /\ RegistrationPageOpened => "register" \in r_closes
          /\ r_status = StatusSuccess <=> g_result = Ok(TRUE)
          /\ r_status \in {StatusSuccess, StatusFailed}
    /\ r_closes # {} => r_pc \in {"close_reg", "return"}
    /\ "register" \in r_closes => r_pc = "return"

\* a successful run whose webmail close raised and whose registration page
\* was closed; a failed run with both closes attempted
C33_Witness ==
    /\ r_pc = "return"
    /\ WebmailCloseFailed
    /\ "register" \in r_closes
    /\ r_regPage = "null"
    /\ r_status = StatusSuccess
C33_FailedRunWitness ==
    /\ r_pc = "return"
    /\ r_status = StatusFailed
    /\ r_closes = {"tempMail", "register"}

(***************************************************************************)
(* C34: the counters of main.                                              *)
(***************************************************************************)
\* main is at a run boundary or has left the loop
AtRunBoundary == m_pc \in {"loop", "boundary", "reconnect", "sleep5", "finally", "exited"}
\* registerOne returns to main in this step
RunCompletes == m_pc = "run" /\ m_pc' # "run"

\* C34: at every run boundary and at exit index = successCount + failCount;
\* a run that completes increments exactly one of the two counters, the
\* one of its outcome, by one; the counters change at no other step and
\* never decrease.
C34_CountersAccountForRuns ==
    /\ [](AtRunBoundary => m_index = successCount + failCount)
    /\ [][/\ successCount' >= successCount
          /\ failCount' >= failCount
          /\ RunCompletes =>
               /\ r_pc = "return"
               /\ IF r_status = StatusSuccess
                  THEN successCount' = successCount + 1 /\ failCount' = failCount
                  ELSE failCount' = failCount + 1 /\ successCount' = successCount
          /\ ~RunCompletes =>
               /\ successCount' = successCount
               /\ failCount' = failCount
               /\ m_index' = m_index]_vars

\* main exited after one successful and one failed run
C34_Witness ==
    /\ m_pc = "exited"
    /\ successCount = 1
    /\ failCount = 1
    /\ m_index = 2

(***************************************************************************)
(* C35: safeEvaluate and its defaultValue.                                 *)
(***************************************************************************)
\* C35: for retries >= 1 the outcome of safeEvaluate is the outcome of its
\* last page.evaluate, never the defaultValue argument: the value of a
\* successful evaluation, a non-navigation error raised at once, or a
\* navigation-class error raised by attempt number retries; every attempt
\* before the last one failed with a navigation-class error, and the script
\* is evaluated at least once and at most retries times.
C35_DefaultValueNeverReturned ==
    (u_pc = "done" /\ u_in.retries >= 1) =>
        /\ u_out.evaluations \in 1..u_in.retries
        /\ u_out.result = u_in.evals[u_out.evaluations]
        /\ u_in.defaultValue = Value("default") =>
              u_out.result # Ok(u_in.defaultValue)
        /\ NavigationFailure(u_out.result) => u_out.evaluations = u_in.retries
        /\ \A k \in 1..(u_out.evaluations - 1) : NavigationFailure(u_in.evals[k])

\* every attempt failed with a navigation-class error: the last one is raised
C35_Witness ==
    /\ u_pc = "done"
    /\ u_in.retries = 2
    /\ u_in.defaultValue = Value("default")
    /\ u_in.evals[1] = Err(TargetClosedError)
    /\ u_in.evals[2] = Err(ContextDestroyedError)
    /\ u_out.result = Err(ContextDestroyedError)
    /\ u_out.evaluations = 2

(***************************************************************************)
(* C36: the SignupEntry stage.                                             *)
(***************************************************************************)
\* the handler invocations of the withRetry call under way
Invocations == Len(wr_trace)

\* C36: SignupEntry never fails a run: register() never raises at it, its
\* handler is invoked once and returns, withRetry neither sleeps nor raises
\* for it, and once it has finished the next stage is EmailEntry.
C36_SignupEntryNeverFails ==
    /\ g_failedAt # "SignupEntry"
    /\ g_pc = "SignupEntry" =>
          /\ Invocations <= 1
          /\ wr_lastError = Undefined
          /\ wr_pc \in {"idle", "call", "returned"}
          /\ \A k \in DOMAIN wr_trace : wr_trace[k].ok
    /\ TimesEntered("SignupEntry") <= 1
    /\ "SignupEntry" \in g_finished =>
          /\ InSeq("SignupEntry", g_entered)
          /\ g_pc = "EmailEntry" \/ InSeq("EmailEntry", g_entered)

\* the handler of SignupEntry returned from its only invocation; the
\* handler of EmailEntry has been invoked after it
C36_Witness ==
    /\ g_pc = "EmailEntry"
    /\ "SignupEntry" \in g_finished
    /\ LastEntered = "EmailEntry"
    /\ TimesEntered("SignupEntry") = 1

(***************************************************************************)
(* OpenAIRegister.clickContinue, register.js 654-694, and its caller       *)
(* enterEmail, register.js 325-353. page.buttons[k] is the textContent of  *)
(* button k, or Throws when btn.evaluate rejects; page.submit says what     *)
(* page.$('button[type="submit"]') does; page.clickOk whether a click      *)
(* resolves.                                                               *)
(***************************************************************************)
MaxButtons == 2

AffirmativeLabels ==
    { <<"U+7EE7","U+7EED">>, <<"c","o","n","t","i","n","u","e">>, <<"n","e","x","t">>,
      <<"U+4E0B","U+4E00","U+6B65">> }
\* el.textContent.trim().toLowerCase() is one of the four labels
IsAffirmative(textContent) == toLowerCase(trim(textContent)) \in AffirmativeLabels

Control(kind, index) == [kind |-> kind, index |-> index]
Continued(clicks, clicked) ==
    [result |-> Ok(Undefined), clicks |-> clicks, clicked |-> clicked]

\* the submit-typed button, when no button had an affirmative label
ClickSubmit(page) ==
    IF page.submit = "present"
    THEN Continued(<<Control("submit", 0)>>, page.clickOk)
    ELSE Continued(<<>>, FALSE)
RECURSIVE ClickFirstAffirmative(_, _)
\* for (const btn of buttons) { text = await btn.evaluate(...);
\* if (text === ...) { await btn.click(); clicked = true; break } }
ClickFirstAffirmative(page, k) ==
    IF k > Len(page.buttons) THEN ClickSubmit(page)
    ELSE IF page.buttons[k] = Throws THEN Continued(<<>>, FALSE)
    ELSE IF IsAffirmative(page.buttons[k].chars)
         THEN Continued(<<Control("button", k)>>, page.clickOk)
         ELSE ClickFirstAffirmative(page, k + 1)

\* a mutant of clickContinue: an error of the page is thrown to the caller
clickContinueRethrows(page) ==
    LET c == IF ~page.selectorOk THEN Continued(<<>>, FALSE)
             ELSE ClickFirstAffirmative(page, 1)
        raised == \/ ~page.selectorOk
                  \/ c.clicks # <<>> /\ ~c.clicked
                  \/ c.clicks = <<>> /\ page.submit = "throws"
                  \/ \E k \in DOMAIN page.buttons : page.buttons[k] = Throws
    IN IF raised THEN [c EXCEPT !.result = Err(EvaluateError)] ELSE c
\* try { waitForSelector; buttons = await page.$$('button'); ... }
\* catch (error) { warn }
clickContinue(page) ==
    IF ~page.selectorOk THEN Continued(<<>>, FALSE)
    ELSE ClickFirstAffirmative(page, 1)

\* enterEmail: field says whether an input was found ("found", "fallback",
\* "missing") or typing into it raised ("typeThrows")
enterEmail(field, screenshotOk, page) ==
    LET outcome == IF field = "missing" THEN Err(StageError("EmailEntry"))
                   ELSE IF field = "typeThrows" THEN Err(EvaluateError)
                   ELSE clickContinue(page).result
    IN IF outcome.ok THEN Ok(Undefined)
       ELSE IF screenshotOk THEN outcome ELSE Err(ScreenshotError)

ButtonTexts ==
    { Str(<<"C","o","n","t","i","n","u","e">>), Str(<<" ","n","e","x","t"," ">>), Str(<<"C","a","n","c","e","l">>), Throws }
RECURSIVE ButtonLists(_)
ButtonLists(n) ==
    IF n = 0 THEN {<<>>}
    ELSE ButtonLists(n - 1)
         \cup {Append(l, b) : l \in ButtonLists(n - 1), b \in ButtonTexts}
ContinuePages ==
    [selectorOk : BOOLEAN, buttons : ButtonLists(MaxButtons),
     submit : {"none", "present", "throws"}, clickOk : BOOLEAN]

ClickContinueCall ==
    /\ u_pc = "start"
    /\ u_out' = [continue |-> clickContinue(u_in.page),
                 handler |-> enterEmail(u_in.field, u_in.screenshotOk, u_in.page)]
    /\ u_pc' = "done"
    /\ UNCHANGED u_in

InitContinue ==
    /\ RetryIdle
    /\ ExtractIdle
    /\ WaitIdle
    /\ NoRun
    /\ u_pc = "start"
    /\ u_in \in {[field |-> f, screenshotOk |-> sc, page |-> pg] :
                    f \in {"found", "fallback", "missing", "typeThrows"},
                    sc \in BOOLEAN, pg \in ContinuePages}
    /\ u_out = Undefined

NextContinue ==
    ClickContinueCall
    /\ UNCHANGED <<retryVars, extractVars, waitVars, regVars, runVars, mainVars>>

SpecContinue == InitContinue /\ [][NextContinue]_vars

\* the buttons of the page whose label is affirmative
AffirmativeButtons ==
    {k \in DOMAIN u_in.page.buttons :
        /\ u_in.page.buttons[k] # Throws
        /\ IsAffirmative(u_in.page.buttons[k].chars)}
\* the value was typed into a field
FieldTyped == u_in.field \in {"found", "fallback"}
\* no control was clicked with success
NothingSubmitted == ~u_out.continue.clicked

\* C37: clickContinue never raises and clicks at most one control: a button
\* with an affirmative label, none of the buttons before it having one, or
\* else the submit-typed button when no button has an affirmative label;
\* and whenever the value was typed, enterEmail returns, also when no
\* control was clicked or the click failed.
C37_ContinueNeverRaises ==
    u_pc = "done" =>
        /\ u_out.continue.result = Ok(Undefined)
        /\ Len(u_out.continue.clicks) <= 1
        /\ \A j \in DOMAIN u_out.continue.clicks :
              LET c == u_out.continue.clicks[j]
              IN IF c.kind = "button"
                 THEN /\ c.index \in AffirmativeButtons
                      /\ \A k \in AffirmativeButtons : c.index <= k
                 ELSE /\ c.kind = "submit"
                      /\ AffirmativeButtons = {}
                      /\ u_in.page.submit = "present"
        /\ u_out.continue.clicked => u_out.continue.clicks # <<>>
        /\ FieldTyped => u_out.handler = Ok(Undefined)

\* the email was typed, the page has no control to click, enterEmail returns;
\* and the click of the Continue button failed, enterEmail returns
C37_Witness ==
    /\ u_pc = "done"
    /\ FieldTyped
    /\ u_in.page.selectorOk
    /\ AffirmativeButtons = {}
    /\ u_in.page.submit = "none"
    /\ NothingSubmitted
    /\ u_out.handler = Ok(Undefined)
C37_ClickFailedWitness ==
    /\ u_pc = "done"
    /\ FieldTyped
    /\ u_out.continue.clicks = <<Control("button", 2)>>
    /\ NothingSubmitted
    /\ u_out.handler = Ok(Undefined)

(***************************************************************************)
(* C38: errors of the webmail page during a poll.                          *)
(***************************************************************************)
\* time has passed in the loop and no inspection of the inbox has succeeded:
\* every poll so far raised at its screenshot or at its inspection
EveryPollErrored == w_now > 0 /\ w_polls = 0

\* C38: an error of the page during a poll does not end the wait: the
\* function raises only once the deadline has passed, and when every poll
\* raised it still ends with the verification-timeout error.
C38_PollErrorsAbsorbed ==
    w_pc = "thrown" =>
        /\ ~WaitLoopTest(w_now, w_timeout)
        /\ EveryPollErrored => w_result = Err(TimeoutError)

(***************************************************************************)
(* C39: termination. A measure of what is left to do, in the natural       *)
(* numbers, decreases with every step of a run and, once stop has been     *)
(* requested, with every step of main.                                     *)
(***************************************************************************)
\* the latest time the inbox wait can reach: the last loop test passes
\* before the deadline and one iteration sleeps 3 + 2 + 5 s
WaitHorizon == RunTimeout + 10 + MaxLatency
WaitPcRank ==
    [test |-> 12, sleep3 |-> 11, screenshot |-> 10, pageinfo |-> 9, click |-> 8,
     sleep2 |-> 7, extract1 |-> 6, extract2 |-> 5, sleep5 |-> 4]
\* what is left of the inbox wait
WaitRank ==
    CASE w_pc = "idle" -> WaitHorizon * 16 + 15
      [] w_pc = "timeout" -> 2
      [] w_pc = "thrown" -> 1
      [] w_pc = "returned" -> 0
      [] OTHER -> (WaitHorizon - w_now) * 16 + WaitPcRank[w_pc]
\* what is left of the withRetry call of a stage
RetryRank ==
    CASE wr_pc = "idle" -> 3 * StageRetries + 4
      [] wr_pc = "call" -> 3 * (StageRetries - wr_i) + 3
      [] wr_pc = "sleep" -> 3 * (StageRetries - wr_i) + 2
      [] wr_pc = "thrown" -> 1
      [] wr_pc = "returned" -> 0
StepRank ==
    IF g_pc \in HandlerStages THEN RetryRank
    ELSE IF g_pc = "AwaitCode" THEN WaitRank ELSE 0
StepBase == 3 * StageRetries + 4 + WaitHorizon * 16 + 16
\* the stages of register() that are left
StageRank ==
    IF g_pc = "idle" THEN 0
    ELSE IF g_pc \in {"returned", "raised"} THEN 1
    ELSE 12 - (CHOOSE k \in DOMAIN StageOrder : StageOrder[k] = g_pc)
RunPcRank ==
    [idle |-> 0, return |-> 1, close_reg |-> 2, close_tm |-> 3, save |-> 4,
     exchange |-> 5, harvest |-> 6, register |-> 7, reg_init |-> 8,
     get_email |-> 9, tm_init |-> 10]
\* what is left of the run under way
RunRank == RunPcRank[r_pc] * 12 * StepBase + StageRank * StepBase + StepRank
MainPcRank ==
    [start |-> 7, run |-> 6, boundary |-> 5, reconnect |-> 4, sleep5 |-> 3,
     loop |-> 2, finally |-> 1, exited |-> 0]
\* what is left of main once stop has been requested
StopRank ==
    MainPcRank[m_pc] * 144 * StepBase
    + (IF m_pc = "run" THEN RunRank
       ELSE IF m_pc = "reconnect" THEN ConnectAttempts - m_i ELSE 0)
\* a step of the program other than the arrival of SIGINT
ProgramStep == Next /\ isRunning' = isRunning
\* main waits at the loop test for a run the model does not explore
AtRunsExplored == m_pc = "loop" /\ isRunning /\ m_index = MaxRuns

====
